---- MODULE Spec2Model ----
(***************************************************************************)
(* A model of the CCG/CKY parsing engine: the category unifier             *)
(* (CCGTypes.py), surface expressions (CCGExprs.py), judgements and their  *)
(* derivation forests (CCGrammar.py), and the combinators, chart builder   *)
(* and reconstruction (CCGCKYParser.py).                                   *)
(*                                                                         *)
(* Python objects are records with a "tag" field naming their class.       *)
(* A dict (sigma) is a function from names to values.  A raised exception  *)
(* is the record of its class, propagated by every caller.                 *)
(***************************************************************************)
EXTENDS Integers, Sequences, FiniteSets, TLC

VARIABLES
    ccg,            \* the grammar object: [terminal, axioms, rules]
    input_string,   \* the string handed to CCGCKYParser
    use_typer,      \* the flag of the current call
    count,          \* the class attribute "count" of CCGType and of its subclasses
    pc,             \* position in CCGCKYParser: idle, seed, fill, done, error
    tokens,         \* input_string.strip().split()
    chart,          \* dict (start, end) -> cell; a cell lists its set in iteration order
    i,              \* index of the next token to seed
    span,           \* current span of the fill loops
    start,          \* current start of the fill loops
    result,         \* the returned list of CKYDerivation, None before return
    error,          \* the raised exception, None if none
    lookups,        \* number of lexicon membership tests made by this call
    attempts,       \* number of Inference.match calls made by this call
    runs,           \* number of calls of CCGCKYParser started in this process
    prev,           \* summary of the previous call (flag, outcome, cells)
    uin,            \* the arguments of a function called on its own (unify, reconstruct)
    uout            \* what that call returned, None before the call

vars == <<ccg, input_string, use_typer, count, pc, tokens, chart, i, span,
          start, result, error, lookups, attempts, runs, prev, uin, uout>>

parserVars == <<ccg, input_string, use_typer, count, pc, tokens, chart, i,
                span, start, result, error, lookups, attempts, runs, prev>>

-----------------------------------------------------------------------------
(* Objects *)

None == [tag |-> "None"]

RecursionError == [tag |-> "RecursionError"]

ConcatError == [tag |-> "ConcatError"]

SyntaxError == [tag |-> "SyntaxError"]

TokenError(token) == [tag |-> "TokenError", token |-> token]

TypeError == [tag |-> "TypeError"]

AttributeError == [tag |-> "AttributeError"]

IsException(v) ==
    v.tag \in {"RecursionError", "ConcatError", "SyntaxError", "TokenError",
               "TypeError", "AttributeError"}

CCGTypeVar(name) == [tag |-> "CCGTypeVar", name |-> name]

CCGTypeAtomicVar(name) == [tag |-> "CCGTypeAtomicVar", name |-> name]

CCGTypeAtomic(name) == [tag |-> "CCGTypeAtomic", name |-> name]

CCGTypeComposite(direction, left, right) ==
    [tag |-> "CCGTypeComposite", dir |-> direction, left |-> left, right |-> right]

CCGTypeAnnotation(ccgtype, annot) ==
    [tag |-> "CCGTypeAnnotation", type |-> ccgtype, annot |-> annot]

CCGExprVar(name) == [tag |-> "CCGExprVar", name |-> name]

CCGExprString(expr_str) == [tag |-> "CCGExprString", str |-> expr_str]

CCGExprConcat(left, right) == [tag |-> "CCGExprConcat", left |-> left, right |-> right]

\* the empty dict
EmptyDict == <<>>

\* dict.update({name: value}) / sigma[name] = value
DictSet(sigma, name, value) == (name :> value) @@ sigma

-----------------------------------------------------------------------------
(* show() of types and expressions *)

RECURSIVE show(_)

CCGTypeVar_show(self) == "$" \o self.name

CCGTypeAtomicVar_show(self) == "@" \o self.name

CCGTypeAtomic_show(self) == self.name

CCGTypeComposite_show(self) ==
    LET slash == IF self.dir = 1 THEN "/" ELSE "\\"
    IN  "(" \o show(self.left) \o " " \o slash \o " " \o show(self.right) \o ")"

CCGTypeAnnotation_show(self) == show(self.type) \o "[" \o self.annot \o "]"

CCGExprVar_show(self) == self.name

CCGExprString_show(self) == "\"" \o self.str \o "\""

CCGExprConcat_show(self) ==
    LET l == show(self.left)
        r == show(self.right)
    IN  SubSeq(l, 1, Len(l) - 1) \o " " \o SubSeq(r, 2, Len(r))

\* dynamic dispatch of x.show()
show(x) ==
    CASE x.tag = "CCGTypeVar" -> CCGTypeVar_show(x)
      [] x.tag = "CCGTypeAtomicVar" -> CCGTypeAtomicVar_show(x)
      [] x.tag = "CCGTypeAtomic" -> CCGTypeAtomic_show(x)
      [] x.tag = "CCGTypeComposite" -> CCGTypeComposite_show(x)
      [] x.tag = "CCGTypeAnnotation" -> CCGTypeAnnotation_show(x)
      [] x.tag = "CCGExprVar" -> CCGExprVar_show(x)
      [] x.tag = "CCGExprString" -> CCGExprString_show(x)
      [] x.tag = "CCGExprConcat" -> CCGExprConcat_show(x)

-----------------------------------------------------------------------------
(* replace(sigma) of types and expressions *)

RECURSIVE replace(_, _)
RECURSIVE CCGTypeVar_chase(_, _, _)

\* CCGTypeVar.replace follows variable-to-variable bindings by recursion; a
\* chain longer than the number of bindings revisits a name and never ends
\* (Python raises RecursionError).
CCGTypeVar_chase(self, sigma, fuel) ==
    IF self.name \notin DOMAIN sigma THEN self
    ELSE IF sigma[self.name].tag = "CCGTypeVar"
         THEN IF fuel = 0 THEN RecursionError
              ELSE CCGTypeVar_chase(sigma[self.name], sigma, fuel - 1)
         ELSE sigma[self.name]

CCGTypeVar_replace(self, sigma) ==
    CCGTypeVar_chase(self, sigma, Cardinality(DOMAIN sigma))

CCGTypeAtomicVar_replace(self, sigma) ==
    IF self.name \in DOMAIN sigma THEN sigma[self.name] ELSE self

CCGTypeAtomic_replace(self, sigma) == self

CCGTypeComposite_replace(self, sigma) ==
    LET lrep == replace(self.left, sigma)
    IN  IF IsException(lrep) THEN lrep
        ELSE LET rrep == replace(self.right, sigma)
             IN  IF IsException(rrep) THEN rrep
                 ELSE CCGTypeComposite(self.dir, lrep, rrep)

CCGTypeAnnotation_replace(self, sigma) ==
    LET rep == replace(self.type, sigma)
    IN  IF IsException(rep) THEN rep ELSE CCGTypeAnnotation(rep, self.annot)

CCGExprVar_replace(self, sigma) ==
    IF self.name \in DOMAIN sigma THEN sigma[self.name] ELSE self

CCGExprString_replace(self, sigma) == self

\* variant of CCGExprConcat.replace that returns the two parts swapped
CCGExprConcat_replace_swapped(self, sigma) ==
    LET lrep == replace(self.left, sigma)
    IN  IF IsException(lrep) THEN lrep
        ELSE LET rrep == replace(self.right, sigma)
             IN  IF IsException(rrep) THEN rrep
                 ELSE CCGExprConcat(rrep, lrep)

CCGExprConcat_replace(self, sigma) ==
    LET lrep == replace(self.left, sigma)
    IN  IF IsException(lrep) THEN lrep
        ELSE LET rrep == replace(self.right, sigma)
             IN  IF IsException(rrep) THEN rrep
                 ELSE CCGExprConcat(lrep, rrep)

\* dynamic dispatch of x.replace(sigma)
replace(x, sigma) ==
    CASE x.tag = "CCGTypeVar" -> CCGTypeVar_replace(x, sigma)
      [] x.tag = "CCGTypeAtomicVar" -> CCGTypeAtomicVar_replace(x, sigma)
      [] x.tag = "CCGTypeAtomic" -> CCGTypeAtomic_replace(x, sigma)
      [] x.tag = "CCGTypeComposite" -> CCGTypeComposite_replace(x, sigma)
      [] x.tag = "CCGTypeAnnotation" -> CCGTypeAnnotation_replace(x, sigma)
      [] x.tag = "CCGExprVar" -> CCGExprVar_replace(x, sigma)
      [] x.tag = "CCGExprString" -> CCGExprString_replace(x, sigma)
      [] x.tag = "CCGExprConcat" -> CCGExprConcat_replace(x, sigma)

-----------------------------------------------------------------------------
(* CCGType.fresh and CCGType.unify *)

RECURSIVE split0(_, _)
\* var.split('_')[0], scanning from position k
split0(var, k) ==
    IF k > Len(var) \/ SubSeq(var, k, k) = "_" THEN SubSeq(var, 1, k - 1)
    ELSE split0(var, k + 1)

\* the class attribute "count": set on CCGType (line 56) and read through
\* inheritance by a subclass until that subclass has been assigned its own
classCount(cnt, cls) == IF cls \in DOMAIN cnt THEN cnt[cls] ELSE cnt["CCGType"]

\* fresh is a classmethod: cls.count += 1 assigns the attribute on the class
\* it is called through.  Returns [name, count], count the attributes after.
fresh(cnt, cls, var) ==
    LET c == classCount(cnt, cls) + 1
    IN  [name |-> split0(var, 1) \o "_" \o ToString(c), count |-> (cls :> c) @@ cnt]

\* reset is a classmethod too
reset(cnt, cls) == (cls :> -1) @@ cnt

\* the value of unify / match: the boolean returned, the dict as mutated, and
\* the exception raised, if any
Ret(ok, sigma, exc) == [ok |-> ok, sigma |-> sigma, exc |-> exc]

\* variant of up_res that sets the result and leaves the dict alone
up_res_no_update(sigma, name, value) == Ret(TRUE, sigma, None)

\* the nested function up_res of unify: result = True; sigma.update(substitution)
up_res(sigma, name, value) == Ret(TRUE, DictSet(sigma, name, value), None)

\* the depth of nested unify calls at which the interpreter gives up
\* (sys.getrecursionlimit(), scaled down to the sizes explored here)
RecursionLimit == 6

RECURSIVE unify_at(_, _, _, _)

\* variant of unify_composite that unifies the right operands as they are
unify_composite_raw_rights(left, right, sigma, d) ==
    LET same_dir == left.dir = right.dir
        unif_left == unify_at(left.left, right.left, sigma, d + 1)
    IN  IF unif_left.exc # None THEN unif_left
        ELSE LET unif_right == unify_at(left.right, right.right, unif_left.sigma, d + 1)
             IN  Ret(same_dir /\ unif_left.ok /\ unif_right.ok,
                     unif_right.sigma, unif_right.exc)

\* the case of two CCGTypeComposite of unify: lines 158-162
unify_composite(left, right, sigma, d) ==
    LET same_dir == left.dir = right.dir
        unif_left == unify_at(left.left, right.left, sigma, d + 1)
    IN  IF unif_left.exc # None THEN unif_left
        ELSE LET r1 == replace(left.right, unif_left.sigma)
             IN  IF IsException(r1) THEN Ret(FALSE, unif_left.sigma, r1)
                 ELSE LET r2 == replace(right.right, unif_left.sigma)
                      IN  IF IsException(r2) THEN Ret(FALSE, unif_left.sigma, r2)
                          ELSE LET unif_right == unify_at(r1, r2, unif_left.sigma, d + 1)
                               IN  Ret(same_dir /\ unif_left.ok /\ unif_right.ok,
                                       unif_right.sigma, unif_right.exc)

\* unify(left, right, sigma) entered at call depth d
unify_at(left, right, sigma, d) ==
    IF d > RecursionLimit THEN Ret(FALSE, sigma, RecursionError) ELSE
    IF left.tag = "CCGTypeVar" /\ right.tag = "CCGTypeVar" THEN
        IF left.name # right.name
        THEN up_res(sigma, left.name, CCGTypeVar(right.name))
        ELSE Ret(FALSE, sigma, None)
    ELSE IF left.tag = "CCGTypeVar" THEN
        up_res(sigma, left.name, right)
    ELSE IF right.tag = "CCGTypeVar" THEN
        up_res(sigma, right.name, left)
    ELSE IF left.tag = "CCGTypeAtomicVar" /\ right.tag = "CCGTypeAtomicVar" THEN
        IF left.name # right.name
        THEN up_res(sigma, left.name, CCGTypeAtomicVar(right.name))
        ELSE Ret(FALSE, sigma, None)
    ELSE IF left.tag = "CCGTypeAtomicVar" /\ right.tag = "CCGTypeAtomic" THEN
        up_res(sigma, left.name, CCGTypeAtomic(right.name))
    ELSE IF left.tag = "CCGTypeAtomic" /\ right.tag = "CCGTypeAtomicVar" THEN
        up_res(sigma, right.name, CCGTypeAtomic(left.name))
    \* line 140: the pattern CCGTypeAnnotation(ccgtype=...) reads an attribute
    \* the class does not have (it stores .type), so this case never matches
    ELSE IF left.tag = "CCGTypeAtomicVar" /\ right.tag = "CCGTypeAnnotation"
            /\ "ccgtype" \in DOMAIN right THEN
        up_res(sigma, left.name, CCGTypeAnnotation(CCGTypeAtomic(right.ccgtype.name), right.annot))
    ELSE IF left.tag = "CCGTypeAnnotation" /\ left.type.tag = "CCGTypeAtomic"
            /\ right.tag = "CCGTypeAtomicVar" THEN
        up_res(sigma, right.name, CCGTypeAnnotation(CCGTypeAtomic(left.type.name), left.annot))
    ELSE IF left.tag = "CCGTypeAtomic" /\ right.tag = "CCGTypeAtomic" THEN
        Ret(left.name = right.name, sigma, None)
    ELSE IF left.tag = "CCGTypeAnnotation" /\ right.tag = "CCGTypeAnnotation" THEN
        IF left.annot = right.annot
        THEN unify_at(left.type, right.type, sigma, d + 1)
        ELSE Ret(FALSE, sigma, None)
    ELSE IF left.tag = "CCGTypeAnnotation" THEN
        unify_at(left.type, right, sigma, d + 1)
    ELSE IF right.tag = "CCGTypeAnnotation" THEN
        unify_at(left, right.type, sigma, d + 1)
    ELSE IF left.tag = "CCGTypeComposite" /\ right.tag = "CCGTypeComposite" THEN
        unify_composite(left, right, sigma, d)
    ELSE Ret(FALSE, sigma, None)

\* CCGType.unify(left, right, sigma)
unify(left, right, sigma) == unify_at(left, right, sigma, 0)

-----------------------------------------------------------------------------
(* match(data, sigma) of expressions *)

CCGExprString_match(self, data, sigma) ==
    Ret(data.tag = "CCGExprString" /\ self.str = data.str, sigma, None)

\* variant of CCGExprConcat.match that compares the two concatenations
CCGExprConcat_match_structural(self, data, sigma) ==
    Ret(data.tag = "CCGExprConcat" /\ self.left = data.left /\ self.right = data.right,
        sigma, None)

CCGExprConcat_match(self, data, sigma) == Ret(FALSE, sigma, ConcatError)

\* sigma[self.name].match(data, None): the bound value's own match, called
\* with None for the dict; its boolean is returned and sigma is not touched
BoundMatch(bound, data, sigma) ==
    CASE bound.tag = "CCGExprString" -> CCGExprString_match(bound, data, sigma)
      [] bound.tag = "CCGExprConcat" -> CCGExprConcat_match(bound, data, sigma)
      [] bound.tag = "CCGExprVar" -> Ret(FALSE, sigma, TypeError)
      [] OTHER -> Ret(FALSE, sigma, AttributeError)

\* variant of CCGExprVar.match that binds the variable on every encounter
CCGExprVar_match_rebind(self, data, sigma) ==
    Ret(TRUE, DictSet(sigma, self.name, data), None)

CCGExprVar_match(self, data, sigma) ==
    IF self.name \notin DOMAIN sigma
    THEN Ret(TRUE, DictSet(sigma, self.name, data), None)
    ELSE BoundMatch(sigma[self.name], data, sigma)

\* dynamic dispatch of pattern.match(data, sigma) on an expression
CCGExpr_match(self, data, sigma) ==
    CASE self.tag = "CCGExprVar" -> CCGExprVar_match(self, data, sigma)
      [] self.tag = "CCGExprString" -> CCGExprString_match(self, data, sigma)
      [] self.tag = "CCGExprConcat" -> CCGExprConcat_match(self, data, sigma)
      [] OTHER -> Ret(FALSE, sigma, AttributeError)

-----------------------------------------------------------------------------
(* Judgement (CCGrammar.py) *)

\* one record of a derivation forest: {"weight": w, "derivation": d}; d is []
\* for a lexical leaf and [combinator, sigma, judmts] otherwise
DerivationRecord(weight, derivation) == [weight |-> weight, derivation |-> derivation]

\* Judgement.__init__; a falsy derivation argument (None or []) is passed as <<>>
Judgement(expr, type_judg, sem, derivation, weight) ==
    [tag |-> "Judgement", expr |-> expr, type |-> type_judg, sem |-> sem,
     derivation |-> IF derivation # <<>> THEN derivation
                    ELSE <<DerivationRecord(weight, <<>>)>>]

Judgement_show(self) == show(self.expr) \o ":" \o show(self.type)

Judgement_match(self, data, sigma) ==
    LET m == CCGExpr_match(self.expr, data.expr, sigma)
    IN  IF m.exc # None \/ ~m.ok THEN m
        ELSE unify(self.type, data.type, m.sigma)

\* variant of Judgement.replace that does not hand the forest over
Judgement_replace_new_forest(self, sigma) ==
    LET exp == replace(self.expr, sigma)
    IN  IF IsException(exp) THEN exp
        ELSE LET typ == replace(self.type, sigma)
             IN  IF IsException(typ) THEN typ
                 ELSE Judgement(exp, typ, self.sem, <<>>, 1)

Judgement_replace(self, sigma) ==
    LET exp == replace(self.expr, sigma)
    IN  IF IsException(exp) THEN exp
        ELSE LET typ == replace(self.type, sigma)
             IN  IF IsException(typ) THEN typ
                 ELSE Judgement(exp, typ, self.sem, self.derivation, 1)

RECURSIVE product(_)
\* itertools.product(*lists): the tuples in lexicographic order
product(lists) ==
    IF lists = <<>> THEN << <<>> >>
    ELSE LET rest == product(Tail(lists))
             hd == Head(lists)
             row(x) == [k \in 1..Len(rest) |-> <<x>> \o rest[k]]
             RECURSIVE rows(_)
             rows(k) == IF k > Len(hd) THEN <<>> ELSE row(hd[k]) \o rows(k + 1)
         IN  rows(1)

\* variant of maxWeight that takes the weight of the first record
firstWeight(derivations) == derivations[1].weight

RECURSIVE maxWeight(_)
maxWeight(derivations) ==
    IF Len(derivations) = 1 THEN derivations[1].weight
    ELSE LET m == maxWeight(Tail(derivations))
         IN  IF derivations[1].weight >= m THEN derivations[1].weight ELSE m

\* variant of Judgement.deriving that makes one record per input Judgement
Judgement_deriving_per_input(self, combinator, sigma, judmts, sem) ==
    [self EXCEPT !.derivation =
                    [k \in 1..Len(judmts) |->
                        DerivationRecord(maxWeight(judmts[k].derivation),
                                         <<combinator, sigma, judmts>>)],
                 !.sem = sem]

\* Judgement.deriving: the forest becomes one record per element of the
\* product of the inputs' forests; the semantics are attached
Judgement_deriving(self, combinator, sigma, judmts, sem) ==
    LET derivations_list == [k \in 1..Len(judmts) |-> judmts[k].derivation]
        prod == product(derivations_list)
        pst == <<combinator, sigma, judmts>>
    IN  [self EXCEPT !.derivation =
                        [k \in 1..Len(prod) |-> DerivationRecord(maxWeight(prod[k]), pst)],
                     !.sem = sem]

-----------------------------------------------------------------------------
(* Inference and the six combinators (CCGCKYParser.py) *)

Inference(name, hyps, concl, sem, helper) ==
    [name |-> name, hyps |-> hyps, concl |-> concl, sem |-> sem, helper |-> helper]

\* a pattern judgement of a rule: Judgement(expr, type)
Pattern(expr, type_judg) == Judgement(expr, type_judg, None, <<>>, 1)

\* variant of ApplicationLeft that expects the functor first, as forward
\* application does
ApplicationLeftFunctorFirst ==
    Inference("<",
        << Pattern(CCGExprVar("a"), CCGTypeComposite(0, CCGTypeVar("X"), CCGTypeVar("Y"))),
           Pattern(CCGExprVar("b"), CCGTypeVar("Y")) >>,
        Pattern(CCGExprConcat(CCGExprVar("a"), CCGExprVar("b")), CCGTypeVar("X")),
        "apply10", "none")

ApplicationLeft ==
    Inference("<",
        << Pattern(CCGExprVar("b"), CCGTypeVar("Y")),
           Pattern(CCGExprVar("a"), CCGTypeComposite(0, CCGTypeVar("X"), CCGTypeVar("Y"))) >>,
        Pattern(CCGExprConcat(CCGExprVar("b"), CCGExprVar("a")), CCGTypeVar("X")),
        "apply10", "none")

\* variant of ApplicationRight whose conclusion puts the argument first
ApplicationRightArgumentFirst ==
    Inference(">",
        << Pattern(CCGExprVar("a"), CCGTypeComposite(1, CCGTypeVar("X"), CCGTypeVar("Y"))),
           Pattern(CCGExprVar("b"), CCGTypeVar("Y")) >>,
        Pattern(CCGExprConcat(CCGExprVar("b"), CCGExprVar("a")), CCGTypeVar("X")),
        "apply01", "none")

ApplicationRight ==
    Inference(">",
        << Pattern(CCGExprVar("a"), CCGTypeComposite(1, CCGTypeVar("X"), CCGTypeVar("Y"))),
           Pattern(CCGExprVar("b"), CCGTypeVar("Y")) >>,
        Pattern(CCGExprConcat(CCGExprVar("a"), CCGExprVar("b")), CCGTypeVar("X")),
        "apply01", "none")

CompositionLeft ==
    Inference("B<",
        << Pattern(CCGExprVar("b"), CCGTypeComposite(0, CCGTypeVar("Y"), CCGTypeVar("Z"))),
           Pattern(CCGExprVar("a"), CCGTypeComposite(0, CCGTypeVar("X"), CCGTypeVar("Y"))) >>,
        Pattern(CCGExprConcat(CCGExprVar("b"), CCGExprVar("a")),
                CCGTypeComposite(0, CCGTypeVar("X"), CCGTypeVar("Z"))),
        "compose10", "none")

CompositionRight ==
    Inference("B>",
        << Pattern(CCGExprVar("a"), CCGTypeComposite(1, CCGTypeVar("X"), CCGTypeVar("Y"))),
           Pattern(CCGExprVar("b"), CCGTypeComposite(1, CCGTypeVar("Y"), CCGTypeVar("Z"))) >>,
        Pattern(CCGExprConcat(CCGExprVar("a"), CCGExprVar("b")),
                CCGTypeComposite(1, CCGTypeVar("X"), CCGTypeVar("Z"))),
        "compose01", "none")

\* variant of TypeRaisingRight that raises forward, to T/(T\X)
TypeRaisingRightForward ==
    Inference("T<",
        << Pattern(CCGExprVar("a"), CCGTypeAtomicVar("X")) >>,
        Pattern(CCGExprVar("a"),
                CCGTypeComposite(1, CCGTypeVar("T"),
                                 CCGTypeComposite(0, CCGTypeVar("T"), CCGTypeVar("X")))),
        "raise", "freshT")

TypeRaisingRight ==
    Inference("T<",
        << Pattern(CCGExprVar("a"), CCGTypeAtomicVar("X")) >>,
        Pattern(CCGExprVar("a"),
                CCGTypeComposite(0, CCGTypeVar("T"),
                                 CCGTypeComposite(1, CCGTypeVar("T"), CCGTypeVar("X")))),
        "raise", "freshT")

TypeRaisingLeft ==
    Inference("T>",
        << Pattern(CCGExprVar("a"), CCGTypeAtomicVar("X")) >>,
        Pattern(CCGExprVar("a"),
                CCGTypeComposite(1, CCGTypeVar("T"),
                                 CCGTypeComposite(0, CCGTypeVar("T"), CCGTypeVar("X")))),
        "raise", "freshT")

\* the semantic functions of the combinators: None unless every input they
\* read has semantics, else the term they build (kept symbolic)
Inference_sem(self, data) ==
    CASE self.sem = "apply10" ->
            IF data[1].sem # None /\ data[2].sem # None
            THEN [tag |-> "apply", fun |-> data[2].sem, arg |-> data[1].sem] ELSE None
      [] self.sem = "apply01" ->
            IF data[1].sem # None /\ data[2].sem # None
            THEN [tag |-> "apply", fun |-> data[1].sem, arg |-> data[2].sem] ELSE None
      [] self.sem = "compose10" ->
            IF data[1].sem # None /\ data[2].sem # None
            THEN [tag |-> "compose", fun |-> data[2].sem, arg |-> data[1].sem] ELSE None
      [] self.sem = "compose01" ->
            IF data[1].sem # None /\ data[2].sem # None
            THEN [tag |-> "compose", fun |-> data[1].sem, arg |-> data[2].sem] ELSE None
      [] self.sem = "raise" ->
            IF data[1].sem # None
            THEN [tag |-> "raise", arg |-> data[1].sem] ELSE None
      [] OTHER -> None

\* self.helper((self.hyps, self.concl)): the type-raising rules rename T in
\* the conclusion to a fresh name; the default helper is the identity.
\* Returns the patterns and the counter after the call.
Inference_helper(self, cnt) ==
    IF self.helper = "freshT"
    THEN LET f == fresh(cnt, self.concl.type.tag, "T")
         IN  [hyps |-> self.hyps,
              concl |-> Judgement_replace(self.concl, ("T" :> CCGTypeVar(f.name))),
              count |-> f.count]
    ELSE [hyps |-> self.hyps, concl |-> self.concl, count |-> cnt]

RECURSIVE matchHyps(_, _, _, _)

\* "if not pat.match(dat, sigma): return None", m being what the match
\* returned
matchHyps_matched(hyps, data, k, m) ==
    IF m.exc # None \/ ~m.ok THEN m ELSE matchHyps(hyps, data, k + 1, m.sigma)

\* one iteration of the loop, pat and dat being pat.replace(sigma) and
\* dat.replace(sigma)
matchHyps_replaced(hyps, data, k, sigma, pat, dat) ==
    IF IsException(pat) THEN Ret(FALSE, sigma, pat)
    ELSE IF IsException(dat) THEN Ret(FALSE, sigma, dat)
    ELSE matchHyps_matched(hyps, data, k, Judgement_match(pat, dat, sigma))

\* the loop of Inference.match over zip(hyps, data) from position k
matchHyps(hyps, data, k, sigma) ==
    IF k > Len(hyps) \/ k > Len(data) THEN Ret(TRUE, sigma, None)
    ELSE matchHyps_replaced(hyps, data, k, sigma,
                            Judgement_replace(hyps[k], sigma),
                            Judgement_replace(data[k], sigma))

\* the return statement of Inference.match, c being concl.replace(sigma)
Inference_match_derive(self, data, h, m, c) ==
    IF IsException(c) THEN [value |-> c, count |-> h.count]
    ELSE [value |-> Judgement_deriving(c, self.name, m.sigma, data, Inference_sem(self, data)),
          count |-> h.count]

\* Inference.match after its loop, m being what the loop ended with
Inference_match_looped(self, data, h, m) ==
    IF m.exc # None THEN [value |-> m.exc, count |-> h.count]
    ELSE IF ~m.ok THEN [value |-> None, count |-> h.count]
    ELSE Inference_match_derive(self, data, h, m, Judgement_replace(h.concl, m.sigma))

\* Inference.match after "hyps, concl = self.helper((self.hyps, self.concl))"
Inference_match_helped(self, data, h) ==
    Inference_match_looped(self, data, h, matchHyps(h.hyps, data, 1, EmptyDict))

\* Inference.match(data): [value, count]; value is the new Judgement, None for
\* no match, or the exception raised; count is the counter after the call
Inference_match(self, data, cnt) ==
    Inference_match_helped(self, data, Inference_helper(self, cnt))

-----------------------------------------------------------------------------
(* CCGrammar: the lexicon and the goal (CCGrammar.py) *)

\* the statements a grammar text parses to
AxiomsStmt(axioms) == [kind |-> "axioms", axioms |-> axioms]

\* token => type, with the weight "(n)" given or not
JudgmStmt(token, type_judg) ==
    [kind |-> "judgm", token |-> token, type |-> type_judg, has_weight |-> FALSE, weight |-> 0]

JudgmStmtW(token, weight, type_judg) ==
    [kind |-> "judgm", token |-> token, type |-> type_judg, has_weight |-> TRUE, weight |-> weight]

\* the "weight" parser of CCGrammar: int of the digits, or rd.val(0)
ParsedWeight(stmt) == IF stmt.has_weight THEN stmt.weight ELSE 0

\* the "judgm" parser action
ParsedJudgement(stmt) ==
    Judgement(CCGExprString(stmt.token), stmt.type, None, <<>>, ParsedWeight(stmt))

RECURSIVE process_axioms(_, _, _)
\* self.terminal is None until the first axiom; "" stands for None
process_axioms(self, axioms, k) ==
    IF k > Len(axioms) THEN self
    ELSE IF self.terminal # ""
         THEN process_axioms([self EXCEPT !.axioms = @ \cup {axioms[k]}], axioms, k + 1)
         ELSE process_axioms([self EXCEPT !.terminal = axioms[k]], axioms, k + 1)

process_judgment(self, judgment) ==
    LET expr_str == judgment.expr.str
        old == IF expr_str \in DOMAIN self.rules THEN self.rules[expr_str] ELSE <<>>
    IN  [self EXCEPT !.rules = (expr_str :> Append(old, judgment)) @@ self.rules]

RECURSIVE CCGrammar_init(_, _, _)
\* CCGrammar.__init__ over the parsed statements (no alias statements)
CCGrammar_init(self, stmts, k) ==
    IF k > Len(stmts) THEN self
    ELSE IF stmts[k].kind = "axioms"
         THEN CCGrammar_init(process_axioms(self, stmts[k].axioms, 1), stmts, k + 1)
         ELSE CCGrammar_init(process_judgment(self, ParsedJudgement(stmts[k])), stmts, k + 1)

CCGrammar(stmts) ==
    CCGrammar_init([terminal |-> "", axioms |-> {}, rules |-> EmptyDict], stmts, 1)

-----------------------------------------------------------------------------
(* str methods used by CCGCKYParser *)

Whitespace == {" ", "\t", "\n"}

Char(s, k) == SubSeq(s, k, k)

\* str.isspace(): at least one character and all of them whitespace
isspace(s) == Len(s) > 0 /\ \A k \in 1..Len(s) : Char(s, k) \in Whitespace

RECURSIVE splitFrom(_, _, _)
\* str.strip().split(): the maximal runs of non-whitespace characters; cur is
\* the run being read
splitFrom(s, k, cur) ==
    IF k > Len(s) THEN (IF cur = "" THEN <<>> ELSE <<cur>>)
    ELSE IF Char(s, k) \in Whitespace
         THEN (IF cur = "" THEN <<>> ELSE <<cur>>) \o splitFrom(s, k + 1, "")
         ELSE splitFrom(s, k + 1, cur \o Char(s, k))

split(s) == splitFrom(s, 1, "")

-----------------------------------------------------------------------------
(* The chart builder and the reconstruction (CCGCKYParser.py) *)

\* what the loops of compute_chart carry: the set being built (in insertion
\* order), the counter, the number of Inference.match calls, and the
\* exception that ended the loops, if any
Acc(current_chart, cnt, att, exc) ==
    [chart |-> current_chart, count |-> cnt, attempts |-> att, exc |-> exc]

\* acc after one more call of match, which returned r
Matched(acc, r) == [acc EXCEPT !.count = r.count, !.attempts = @ + 1]

RECURSIVE add_combinations_from(_, _, _, _, _)

\* "if result: current_chart.add(result)", r being what combinator.match
\* returned
add_combinations_result(combinators, left, right, acc, k, r) ==
    IF IsException(r.value) THEN [Matched(acc, r) EXCEPT !.exc = r.value]
    ELSE add_combinations_from(combinators, left, right,
             IF r.value # None
             THEN [Matched(acc, r) EXCEPT !.chart = Append(@, r.value)]
             ELSE Matched(acc, r),
             k + 1)

\* the loop "for combinator in combinators", from combinator k
add_combinations_from(combinators, left, right, acc, k) ==
    IF k > Len(combinators) \/ acc.exc # None THEN acc
    ELSE add_combinations_result(combinators, left, right, acc, k,
             Inference_match(combinators[k], <<left, right>>, acc.count))

\* add_combinations(combinators, left, right, current_chart): every result
\* is a new object, and the set holds objects by identity, so every result
\* is a new entry
add_combinations(combinators, left, right, acc) ==
    add_combinations_from(combinators, left, right, acc, 1)

\* "if new_left: add_combinations(combinators, new_left, right, result)",
\* new_left being what TypeRaisingLeft.match([left]) returned
compute_pair_new_left(combinators, right, acc, new_left) ==
    IF IsException(new_left.value) THEN [Matched(acc, new_left) EXCEPT !.exc = new_left.value]
    ELSE IF new_left.value # None
         THEN add_combinations(combinators, new_left.value, right, Matched(acc, new_left))
         ELSE Matched(acc, new_left)

\* "new_left = TypeRaisingLeft.match([left])"
compute_pair_raise_left(combinators, left, right, acc) ==
    IF acc.exc # None THEN acc
    ELSE compute_pair_new_left(combinators, right, acc,
             Inference_match(TypeRaisingLeft, <<left>>, acc.count))

\* "if new_right: add_combinations(combinators, left, new_right, result)",
\* new_right being what TypeRaisingRight.match([right]) returned
compute_pair_new_right(combinators, left, right, acc, new_right) ==
    IF IsException(new_right.value) THEN [Matched(acc, new_right) EXCEPT !.exc = new_right.value]
    ELSE compute_pair_raise_left(combinators, left, right,
             IF new_right.value # None
             THEN add_combinations(combinators, left, new_right.value, Matched(acc, new_right))
             ELSE Matched(acc, new_right))

\* "if use_typer: new_right = TypeRaisingRight.match([right])"
compute_pair_typer(combinators, left, right, typer, acc) ==
    IF acc.exc # None \/ ~typer THEN acc
    ELSE compute_pair_new_right(combinators, left, right, acc,
             Inference_match(TypeRaisingRight, <<right>>, acc.count))

\* the body of "for left, right in left_right_pairs" of compute_chart
compute_pair(combinators, left, right, typer, acc) ==
    compute_pair_typer(combinators, left, right, typer,
                       add_combinations(combinators, left, right, acc))

\* variant of compute_pairs that leaves the loop after its first pair
compute_pairs_first(combinators, pairs, typer, acc, k) ==
    IF pairs = <<>> \/ acc.exc # None THEN acc
    ELSE compute_pair(combinators, pairs[1][1], pairs[1][2], typer, acc)

RECURSIVE compute_pairs(_, _, _, _, _)
\* the loop over left_right_pairs, from pair k
compute_pairs(combinators, pairs, typer, acc, k) ==
    IF k > Len(pairs) \/ acc.exc # None THEN acc
    ELSE compute_pairs(combinators, pairs, typer,
                       compute_pair(combinators, pairs[k][1], pairs[k][2], typer, acc),
                       k + 1)

\* [(left, right) for left in lefts for right in rights]
left_right_pairs(lefts, rights) ==
    [k \in 1..(Len(lefts) * Len(rights)) |->
        <<lefts[((k - 1) \div Len(rights)) + 1], rights[((k - 1) % Len(rights)) + 1]>>]

RECURSIVE compute_steps(_, _, _, _, _, _, _)
\* the loop "for step in range(1, span)" of compute_chart, from step
compute_steps(combinators, cells, sp, st, typer, acc, step) ==
    IF step >= sp \/ acc.exc # None THEN acc
    ELSE LET mid == st + step
             pairs == left_right_pairs(cells[<<st, mid>>], cells[<<mid, st + sp>>])
         IN  compute_steps(combinators, cells, sp, st, typer,
                           compute_pairs(combinators, pairs, typer, acc, 1), step + 1)

\* the keys compute_chart reads in chart for the cell (st, st + sp)
CellsRead(st, sp) ==
    UNION {{<<st, st + step>>, <<st + step, st + sp>>} : step \in 1..(sp - 1)}

\* compute_chart(combinators, chart, span, start, use_typer), started with the
\* counter cnt and att calls of match made so far
compute_chart(combinators, cells, sp, st, typer, cnt, att) ==
    compute_steps(combinators, cells, sp, st, typer, Acc(<<>>, cnt, att, None), 1)

\* CKYDerivation(current, past, combinator); a past of None is <<>> and a
\* combinator of None is "None"
CKYDerivation(current, past, combinator) ==
    [tag |-> "CKYDerivation", current |-> current, past |-> past, combinator |-> combinator]

RECURSIVE reconstruct(_)
reconstruct(parses) ==
    LET RECURSIVE derivs(_, _)
        \* the loop "for deriv in parse.derivation", from record k
        derivs(parse, k) ==
            IF k > Len(parse.derivation) THEN <<>>
            ELSE LET deriv == parse.derivation[k]
                 IN  (IF deriv.derivation # <<>>
                      THEN <<CKYDerivation(parse, reconstruct(deriv.derivation[3]),
                                           deriv.derivation[1])>>
                      ELSE <<CKYDerivation(parse, <<>>, "None")>>)
                     \o derivs(parse, k + 1)
    IN  IF parses = <<>> THEN <<>>
        ELSE derivs(Head(parses), 1) \o reconstruct(Tail(parses))

\* the set {ApplicationLeft, ApplicationRight, CompositionLeft,
\* CompositionRight} of CCGCKYParser; the order in which it is iterated only
\* orders the entries of a cell, which is itself stored in any order
combinators == <<ApplicationLeft, ApplicationRight, CompositionLeft, CompositionRight>>

\* variant of GoalFilter that keeps the whole cell
GoalFilterAll(cell, terminal) == cell

\* [elem for elem in cell if elem.type.show() == terminal]
GoalFilter(cell, terminal) == SelectSeq(cell, LAMBDA elem : show(elem.type) = terminal)

\* the orders in which a set built from the sequence s can be iterated
Orders(s) == { [k \in 1..Len(s) |-> s[p[k]]] : p \in Permutations(1..Len(s)) }

-----------------------------------------------------------------------------
(* Grammars and inputs the parser is run on *)

NP == CCGTypeAtomic("NP")

S == CCGTypeAtomic("S")

N == CCGTypeAtomic("N")

Fwd(l, r) == CCGTypeComposite(1, l, r)

Bwd(l, r) == CCGTypeComposite(0, l, r)

\* :- S / John => NP / sleeps => S\NP
GrammarIntransitive ==
    <<AxiomsStmt(<<"S">>), JudgmStmt("John", NP), JudgmStmt("sleeps", Bwd(S, NP))>>

\* the same with sleeps => (S\NP)/NP added
GrammarTwoEntries == Append(GrammarIntransitive, JudgmStmt("sleeps", Fwd(Bwd(S, NP), NP)))

\* :- S, N, NP / John => NP / eats => (S\NP)/NP / apples => NP
GrammarTransitive ==
    <<AxiomsStmt(<<"S", "N", "NP">>), JudgmStmt("John", NP),
      JudgmStmt("eats", Fwd(Bwd(S, NP), NP)), JudgmStmt("apples", NP)>>

\* :- NP, S / John => NP[sg] / John => (2) NP / sleeps => S\NP
GrammarNounGoal ==
    <<AxiomsStmt(<<"NP", "S">>), JudgmStmt("John", CCGTypeAnnotation(NP, "sg")),
      JudgmStmtW("John", 2, NP), JudgmStmt("sleeps", Bwd(S, NP))>>

\* categories with variables named as the rules' own variables
GrammarRuleVars ==
    <<AxiomsStmt(<<"S">>), JudgmStmt("a", CCGTypeVar("X")),
      JudgmStmt("b", Bwd(CCGTypeVar("Y"), CCGTypeVar("X")))>>

\* categories with variables of their own: a => NP / a => N / b => $P/$P
GrammarOwnVars ==
    <<AxiomsStmt(<<"S">>), JudgmStmt("a", NP), JudgmStmt("a", N),
      JudgmStmt("b", Fwd(CCGTypeVar("P"), CCGTypeVar("P")))>>

\* one variable, named as a rule's own, under both tokens: a => $Y / b => $Y
GrammarSharedVar ==
    <<AxiomsStmt(<<"S">>), JudgmStmt("a", CCGTypeVar("Y")), JudgmStmt("b", CCGTypeVar("Y"))>>

\* a variable named as fresh names are: a => NP / b => $T_1\NP
GrammarFreshVar ==
    <<AxiomsStmt(<<"S">>), JudgmStmt("a", NP), JudgmStmt("b", Bwd(CCGTypeVar("T_1"), NP))>>

\* two backward functors that compose: a => NP\S / b => S\NP
GrammarBackward ==
    <<AxiomsStmt(<<"S">>), JudgmStmt("a", Bwd(NP, S)), JudgmStmt("b", Bwd(S, NP))>>

\* the (grammar, input string) pairs explored
Scenarios ==
    { <<GrammarIntransitive, "John sleeps">>,
      <<GrammarIntransitive, "sleeps John">>,
      <<GrammarIntransitive, "  John \t sleeps\n">>,
      <<GrammarIntransitive, "">>,
      <<GrammarIntransitive, " ">>,
      <<GrammarIntransitive, " \t ">>,
      <<GrammarIntransitive, "John eats">>,
      <<GrammarIntransitive, "eats John">>,
      <<GrammarIntransitive, "John sleeps !">>,
      <<GrammarIntransitive, "eats John !">>,
      <<GrammarIntransitive, "John">>,
      <<GrammarTwoEntries, "John sleeps">>,
      <<GrammarTwoEntries, "sleeps John">>,
      <<GrammarTransitive, "John eats apples">>,
      <<GrammarTransitive, "eats John apples">>,
      <<GrammarTransitive, "John eats">>,
      <<GrammarNounGoal, "John">>,
      <<GrammarNounGoal, "John sleeps">>,
      <<GrammarRuleVars, "a b">>,
      <<GrammarSharedVar, "a b">>,
      <<GrammarOwnVars, "a b">>,
      <<GrammarOwnVars, "b a">>,
      <<GrammarFreshVar, "a b">>,
      <<GrammarBackward, "a b">> }

\* number of calls of CCGCKYParser made in one process
MaxRuns == 2

-----------------------------------------------------------------------------
(* CCGCKYParser as a state machine *)

NoPrev == [tag |-> "None"]

\* what is kept of a finished call: its flag, how it ended, the number of
\* trees returned, and for every chart cell its set of (expr, category) pairs
Summary ==
    [tag |-> "Prev", use_typer |-> use_typer, pc |-> pc,
     nres |-> IF pc = "done" THEN Len(result) ELSE 0,
     cells |-> [c \in DOMAIN chart |->
                  {[expr |-> chart[c][k].expr, type |-> chart[c][k].type] :
                       k \in 1..Len(chart[c])}]]

Init ==
    /\ \E sc \in Scenarios : ccg = CCGrammar(sc[1]) /\ input_string = sc[2]
    /\ use_typer = FALSE
    /\ count = ("CCGType" :> -1)
    /\ pc = "idle"
    /\ tokens = <<>>
    /\ chart = EmptyDict
    /\ i = 0
    /\ span = 2
    /\ start = 0
    /\ result = None
    /\ error = None
    /\ lookups = 0
    /\ attempts = 0
    /\ runs = 0
    /\ prev = NoPrev
    /\ uin = None
    /\ uout = None

\* variant of Call that tests "not input_string" only: a whitespace-only
\* string gives no token, and chart[(0, 0)] raises KeyError at the return
CallEmptyOnly ==
    /\ pc \in {"idle", "done", "error"}
    /\ runs < MaxRuns
    /\ \E flag \in BOOLEAN : use_typer' = flag
    /\ runs' = runs + 1
    /\ prev' = IF pc = "idle" THEN prev ELSE Summary
    /\ chart' = EmptyDict
    /\ result' = None
    /\ lookups' = 0
    /\ attempts' = 0
    /\ i' = 0
    /\ span' = 2
    /\ start' = 0
    /\ tokens' = split(input_string)
    /\ IF input_string = ""
       THEN pc' = "error" /\ error' = SyntaxError
       ELSE IF split(input_string) = <<>>
            THEN pc' = "error" /\ error' = [tag |-> "KeyError"]
            ELSE pc' = "seed" /\ error' = None
    /\ UNCHANGED <<ccg, input_string, count, uin, uout>>

\* a call CCGCKYParser(ccg, input_string, flag): lines 746-751
Call ==
    /\ pc \in {"idle", "done", "error"}
    /\ runs < MaxRuns
    /\ \E flag \in BOOLEAN : use_typer' = flag
    /\ runs' = runs + 1
    /\ prev' = IF pc = "idle" THEN prev ELSE Summary
    /\ chart' = EmptyDict
    /\ result' = None
    /\ lookups' = 0
    /\ attempts' = 0
    /\ i' = 0
    /\ span' = 2
    /\ start' = 0
    /\ IF input_string = "" \/ isspace(input_string)
       THEN /\ pc' = "error"
            /\ error' = SyntaxError
            /\ tokens' = <<>>
       ELSE /\ pc' = "seed"
            /\ error' = None
            /\ tokens' = split(input_string)
    /\ UNCHANGED <<ccg, input_string, count, uin, uout>>

\* variant of Seed that gives a token without lexicon entry an empty cell
SeedSkipUnknown ==
    /\ pc = "seed"
    /\ LET token == tokens[i + 1]
           entries == IF token \in DOMAIN ccg.rules THEN ccg.rules[token] ELSE <<>>
       IN  /\ lookups' = lookups + 1
           /\ \E cell \in Orders(entries) : chart' = (<<i, i + 1>> :> cell) @@ chart
           /\ i' = i + 1
           /\ pc' = IF i + 1 < Len(tokens) THEN "seed"
                    ELSE IF Len(tokens) >= 2 THEN "fill" ELSE "return"
    /\ UNCHANGED <<ccg, input_string, use_typer, count, tokens, span, start,
                   result, error, attempts, runs, prev, uin, uout>>

\* one iteration of "for i, token in enumerate(tokens)": lines 753-757
Seed ==
    /\ pc = "seed"
    /\ LET token == tokens[i + 1]
       IN  /\ lookups' = lookups + 1
           /\ IF token \notin DOMAIN ccg.rules
              THEN /\ pc' = "error"
                   /\ error' = TokenError(token)
                   /\ UNCHANGED <<chart, i>>
              ELSE /\ \E cell \in Orders(ccg.rules[token]) :
                          chart' = (<<i, i + 1>> :> cell) @@ chart
                   /\ i' = i + 1
                   /\ pc' = IF i + 1 < Len(tokens) THEN "seed"
                            ELSE IF Len(tokens) >= 2 THEN "fill" ELSE "return"
                   /\ UNCHANGED error
    /\ UNCHANGED <<ccg, input_string, use_typer, count, tokens, span, start,
                   result, attempts, runs, prev, uin, uout>>

\* variant of FillCell for loops nested the other way round, over start and
\* then over span
FillCellSpanFirst(r) ==
    /\ count' = r.count
    /\ attempts' = r.attempts
    /\ IF r.exc # None
       THEN /\ pc' = "error"
            /\ error' = r.exc
            /\ UNCHANGED <<chart, span, start>>
       ELSE /\ \E cell \in Orders(r.chart) :
                   chart' = (<<start, start + span>> :> cell) @@ chart
            /\ span' = IF start + span = Len(tokens) THEN 2 ELSE span + 1
            /\ start' = IF start + span = Len(tokens) THEN start + 1 ELSE start
            /\ pc' = IF start + span = Len(tokens) /\ start + 3 > Len(tokens)
                     THEN "return" ELSE "fill"
            /\ UNCHANGED error

\* "chart[(start, start + span)] = compute_chart(...)", r being what
\* compute_chart ended with
FillCell(r) ==
    /\ count' = r.count
    /\ attempts' = r.attempts
    /\ IF r.exc # None
       THEN /\ pc' = "error"
            /\ error' = r.exc
            /\ UNCHANGED <<chart, span, start>>
       ELSE /\ \E cell \in Orders(r.chart) :
                   chart' = (<<start, start + span>> :> cell) @@ chart
            /\ start' = IF start + span = Len(tokens) THEN 0 ELSE start + 1
            /\ span' = IF start + span = Len(tokens) THEN span + 1 ELSE span
            /\ pc' = IF start + span = Len(tokens) /\ span = Len(tokens)
                     THEN "return" ELSE "fill"
            /\ UNCHANGED error

\* one iteration of the loops over span and start: lines 759-761
Fill ==
    /\ pc = "fill"
    /\ FillCell(compute_chart(combinators, chart, span, start, use_typer, count, attempts))
    /\ UNCHANGED <<ccg, input_string, use_typer, tokens, i, result, lookups,
                   runs, prev, uin, uout>>

\* the return statement: line 763
Return ==
    /\ pc = "return"
    /\ result' = reconstruct(GoalFilter(chart[<<0, Len(tokens)>>], ccg.terminal))
    /\ pc' = "done"
    /\ UNCHANGED <<ccg, input_string, use_typer, count, tokens, chart, i, span,
                   start, error, lookups, attempts, runs, prev, uin, uout>>

Next == Call \/ Seed \/ Fill \/ Return

Spec == Init /\ [][Next]_vars

-----------------------------------------------------------------------------
(* Properties of the parser, checked under Spec *)

\* the parse has ended, by a return or by an exception
Finished == pc \in {"done", "error"}

\* C1: after a parse, no chart cell holds two distinct entries with an equal
\* (expr, category) pair (colliding results are merged into one entry).
MergeInvariant ==
    pc = "done" =>
        \A c \in DOMAIN chart : \A j, k \in 1..Len(chart[c]) :
            (chart[c][j].expr = chart[c][k].expr /\ chart[c][j].type = chart[c][k].type)
                => j = k

\* C4: an empty or whitespace-only input is rejected with SyntaxError before
\* any chart cell is created, any lexicon lookup is made and any combinator
\* is attempted.
BlankInputRejected ==
    (pc # "idle" /\ \A k \in 1..Len(input_string) : Char(input_string, k) \in Whitespace)
        => /\ pc = "error"
           /\ error = SyntaxError
           /\ result = None
           /\ chart = EmptyDict
           /\ lookups = 0
           /\ attempts = 0

BlankInputRejectedWitness ==
    /\ input_string = " \t "
    /\ pc = "error"
    /\ error = SyntaxError
    /\ runs = 2

\* C5: when some token has no lexicon entry, the parse stops with a
\* TokenError carrying the first such token; no list is returned, and no cell
\* of span 2 or more is computed (no combinator is attempted), wherever the
\* unknown token stands.
TokenErrorStops ==
    LET unknown == {k \in 1..Len(tokens) : tokens[k] \notin DOMAIN ccg.rules}
    IN  (pc \in {"fill", "return", "done", "error"} /\ unknown # {})
            => /\ pc = "error"
               /\ error = TokenError(tokens[CHOOSE k \in unknown : \A m \in unknown : k <= m])
               /\ result = None
               /\ \A c \in DOMAIN chart : c[2] - c[1] = 1
               /\ attempts = 0

TokenErrorStopsWitness ==
    /\ pc = "error"
    /\ error = TokenError("!")
    /\ tokens = <<"John", "sleeps", "!">>
    /\ DOMAIN chart = {<<0, 1>>, <<1, 2>>}

\* C7: the roots of the returned trees are exactly the entries of cell (0, n)
\* whose category displays as the goal, the first declared axiom.
RootsAreGoalEntries ==
    pc = "done" =>
        LET cell == chart[<<0, Len(tokens)>>]
            goals == {k \in 1..Len(cell) : show(cell[k].type) = ccg.terminal}
        IN  /\ \A sc \in Scenarios :
                   ccg = CCGrammar(sc[1]) => ccg.terminal = sc[1][1].axioms[1]
            /\ \A t \in 1..Len(result) : \E k \in goals : result[t].current = cell[k]
            /\ \A k \in goals : \E t \in 1..Len(result) : result[t].current = cell[k]

RootsAreGoalEntriesWitness ==
    /\ pc = "done"
    /\ Len(result) >= 1
    /\ \E k \in 1..Len(chart[<<0, Len(tokens)>>]) :
           show(chart[<<0, Len(tokens)>>][k].type) # ccg.terminal

\* the lexicons of the example: John => NP, sleeps => S\NP, with or without
\* sleeps => (S\NP)/NP
JohnSleeps ==
    /\ ccg \in {CCGrammar(GrammarIntransitive), CCGrammar(GrammarTwoEntries)}
    /\ tokens = <<"John", "sleeps">>

\* C10 (as stated): parsing John sleeps yields exactly one tree, of root
\* category S and root combinator <, with either lexicon.
JohnSleepsOneTreeAnyFlag ==
    (pc = "done" /\ JohnSleeps)
        => /\ Len(result) = 1
           /\ show(result[1].current.type) = "S"
           /\ result[1].combinator = "<"

\* C10 (amended): without type-raising, parsing John sleeps yields exactly
\* one tree, of root category S and root combinator <, with either lexicon.
JohnSleepsOneTree ==
    (pc = "done" /\ JohnSleeps /\ ~use_typer)
        => /\ Len(result) = 1
           /\ show(result[1].current.type) = "S"
           /\ result[1].combinator = "<"

JohnSleepsOneTreeWitness ==
    /\ pc = "done"
    /\ ~use_typer
    /\ ccg = CCGrammar(GrammarTwoEntries)
    /\ tokens = <<"John", "sleeps">>
    /\ Len(chart[<<1, 2>>]) = 2
    /\ Len(result) = 1

RECURSIVE atomNames(_)
\* the names of the atomic categories that occur in a category
atomNames(t) ==
    CASE t.tag = "CCGTypeAtomic" -> {t.name}
      [] t.tag = "CCGTypeComposite" -> atomNames(t.left) \cup atomNames(t.right)
      [] t.tag = "CCGTypeAnnotation" -> atomNames(t.type)
      [] OTHER -> {}

\* every token has a lexicon entry, and no lexicon category of a token
\* mentions the goal: no category displayed as the goal can be derived
GoalNotDerivable ==
    /\ tokens # <<>>
    /\ \A k \in 1..Len(tokens) : tokens[k] \in DOMAIN ccg.rules
    /\ \A k \in 1..Len(tokens) : \A e \in 1..Len(ccg.rules[tokens[k]]) :
           ccg.terminal \notin atomNames(ccg.rules[tokens[k]][e].type)

\* C6: a non-blank input whose tokens are all in the lexicon and which has
\* no derivation to the goal category makes the parser return an empty list
\* and raise no error, with or without type-raising.
NoDerivationGivesEmptyList ==
    (Finished /\ GoalNotDerivable) => (pc = "done" /\ result = <<>>)

\* C8: on the same input, the parse with type-raising returns at least as
\* many trees as the parse without it (two consecutive calls, in either
\* order, the one without type-raising having returned a list).
TypeRaisingNeverShrinks ==
    (prev # NoPrev /\ Finished /\ prev.use_typer # use_typer)
        => /\ (use_typer /\ prev.pc = "done") => (pc = "done" /\ Len(result) >= prev.nres)
           /\ (~use_typer /\ pc = "done") => (prev.pc = "done" /\ prev.nres >= Len(result))

\* what remains of C8 on the calls that return: the two counts compare as
\* stated whenever both calls returned a list
TypeRaisingNeverShrinksOnReturn ==
    (prev # NoPrev /\ pc = "done" /\ prev.pc = "done" /\ prev.use_typer # use_typer)
        => IF use_typer THEN Len(result) >= prev.nres ELSE prev.nres >= Len(result)

RECURSIVE varNames(_)
\* the names of the variables that occur in a category
varNames(t) ==
    CASE t.tag = "CCGTypeVar" -> {t.name}
      [] t.tag = "CCGTypeComposite" -> varNames(t.left) \cup varNames(t.right)
      [] t.tag = "CCGTypeAnnotation" -> varNames(t.type)
      [] OTHER -> {}

\* the names made by fresh for type-raising: T_<n>
freshNames(cells) ==
    UNION { UNION { {n \in varNames(p.type) : Len(n) > 2 /\ SubSeq(n, 1, 2) = "T_"} :
                    p \in cells[c] } : c \in DOMAIN cells }

RECURSIVE rename(_, _)
\* the category t with its fresh names renamed by f
rename(t, f) ==
    CASE t.tag = "CCGTypeVar" -> IF t.name \in DOMAIN f THEN CCGTypeVar(f[t.name]) ELSE t
      [] t.tag = "CCGTypeComposite" ->
            CCGTypeComposite(t.dir, rename(t.left, f), rename(t.right, f))
      [] t.tag = "CCGTypeAnnotation" -> CCGTypeAnnotation(rename(t.type, f), t.annot)
      [] OTHER -> t

ParserTotal ==
    (Finished /\ tokens # <<>> /\ \A k \in 1..Len(tokens) : tokens[k] \in DOMAIN ccg.rules)
        => (pc = "done" /\ error = None)

\* C15 without type-raising
ParserTotalFlagOff ==
    (Finished /\ ~use_typer /\ tokens # <<>>
        /\ \A k \in 1..Len(tokens) : tokens[k] \in DOMAIN ccg.rules)
        => (pc = "done" /\ error = None)

\* when the cell (start, start + span) is about to be computed: it is not
\* assigned yet, every cell read for it is assigned and has a smaller span,
\* every cell of a smaller span is assigned, and no cell of a larger span is
FilledBottomUp ==
    pc = "fill" =>
        /\ <<start, start + span>> \notin DOMAIN chart
        /\ \A c \in CellsRead(start, span) : c \in DOMAIN chart /\ c[2] - c[1] < span
        /\ \A w \in 1..(span - 1) : \A st \in 0..(Len(tokens) - w) :
               <<st, st + w>> \in DOMAIN chart
        /\ \A c \in DOMAIN chart :
               c[2] - c[1] < span \/ (c[2] - c[1] = span /\ c[1] < start)

\* within one call, a step keeps every assigned cell as it is
CellsKept ==
    runs' = runs => \A c \in DOMAIN chart : c \in DOMAIN chart' /\ chart'[c] = chart[c]

\* C16: cells are filled in increasing span order: when a cell is computed,
\* every cell it reads has a smaller span and is already assigned, and no
\* cell changes after it has been assigned.
FilledInSpanOrder == []FilledBottomUp /\ [][CellsKept]_vars

FilledInSpanOrderWitness ==
    /\ pc = "fill"
    /\ Len(tokens) = 3
    /\ span = 3
    /\ start = 0
    /\ chart[<<1, 3>>] # <<>>
    /\ CellsRead(start, span) = {<<0, 1>>, <<1, 3>>, <<0, 2>>, <<2, 3>>}

\* every entry of every chart cell has at least one forest record
ForestNonEmpty ==
    \A c \in DOMAIN chart : \A j \in 1..Len(chart[c]) : chart[c][j].derivation # <<>>

\* C11: every Judgement of every chart cell has a non-empty forest, and that
\* forest holds every way its (expr, category) pair was derived at that cell:
\* the records of every entry of the cell with the same pair are among its own.
ForestHoldsAllAlternatives ==
    /\ ForestNonEmpty
    /\ \A c \in DOMAIN chart : \A j, k \in 1..Len(chart[c]) :
           (chart[c][j].expr = chart[c][k].expr /\ chart[c][j].type = chart[c][k].type)
               => \A r \in 1..Len(chart[c][k].derivation) :
                      \E q \in 1..Len(chart[c][j].derivation) :
                          chart[c][j].derivation[q] = chart[c][k].derivation[r]

\* j is the lexicon entry a statement without "(n)" declares
DeclaredWithoutWeight(j) ==
    \E sc \in Scenarios :
        /\ ccg = CCGrammar(sc[1])
        /\ \E k \in 1..Len(sc[1]) :
               /\ sc[1][k].kind = "judgm"
               /\ ~sc[1][k].has_weight
               /\ j.expr = CCGExprString(sc[1][k].token)
               /\ j.type = sc[1][k].type

\* C27: a lexicon entry declared without a weight has lexical weight 1: the
\* one record of its forest has weight 1.
DefaultWeightIsOne ==
    \A token \in DOMAIN ccg.rules :
        \A k \in 1..Len(ccg.rules[token]) :
            DeclaredWithoutWeight(ccg.rules[token][k])
                => ccg.rules[token][k].derivation = <<DerivationRecord(1, <<>>)>>

\* what the code gives instead: weight 0
DefaultWeightIsZero ==
    \A token \in DOMAIN ccg.rules :
        \A k \in 1..Len(ccg.rules[token]) :
            DeclaredWithoutWeight(ccg.rules[token][k])
                => ccg.rules[token][k].derivation = <<DerivationRecord(0, <<>>)>>

\* the names of the variables of the lexicon's categories
lexiconVarNames ==
    UNION { UNION { varNames(ccg.rules[token][k].type) : k \in 1..Len(ccg.rules[token]) } :
            token \in DOMAIN ccg.rules }

\* the names fresh has returned so far in the process: T_0 .. T_count
generatedNames ==
    {"T_" \o ToString(k) : k \in 0..classCount(count, "CCGTypeComposite")}

\* a Judgement made by one of the two type-raising rules
IsRaised(j) ==
    \E k \in 1..Len(j.derivation) :
        /\ j.derivation[k].derivation # <<>>
        /\ j.derivation[k].derivation[1] \in {"T<", "T>"}

RECURSIVE raisedIn(_)
\* the type-raised Judgements in the forest of j, j included
raisedIn(j) ==
    (IF IsRaised(j) THEN {j} ELSE {})
        \cup UNION { IF j.derivation[k].derivation = <<>> THEN {}
                     ELSE UNION { raisedIn(j.derivation[k].derivation[3][m]) :
                                  m \in 1..Len(j.derivation[k].derivation[3]) } :
                     k \in 1..Len(j.derivation) }

\* the type-raised Judgements the chart holds, as inputs of its entries
raisedInChart ==
    UNION { UNION { raisedIn(chart[c][k]) : k \in 1..Len(chart[c]) } : c \in DOMAIN chart }

\* the variable a type-raised Judgement was raised over: T of T/(T\X)
raisedName(j) == j.type.left.name

\* two type-raised Judgements of one parse never have the same fresh name
RaisedNamesDistinct ==
    \A r1 \in raisedInChart, r2 \in raisedInChart :
        raisedName(r1) = raisedName(r2) => r1 = r2

\* the counter behind the fresh names never goes down
CounterMonotonic ==
    classCount(count', "CCGTypeComposite") >= classCount(count, "CCGTypeComposite")

\* C23: every type-raising match takes its name from a counter that only
\* grows, so two type-raised Judgements of one parse have different names,
\* and no generated name is the name of a variable of the lexicon.
FreshNamesNeverCollide ==
    /\ RaisedNamesDistinct
    /\ \A r \in raisedInChart : raisedName(r) \in generatedNames
    /\ generatedNames \cap lexiconVarNames = {}

\* the first two parts of C23
FreshNamesDistinct ==
    /\ [](RaisedNamesDistinct /\ \A r \in raisedInChart : raisedName(r) \in generatedNames)
    /\ [][CounterMonotonic]_vars

RECURSIVE joined(_, _, _)
\* the tokens from position lo to position hi, separated by one space
joined(toks, lo, hi) ==
    IF lo > hi THEN ""
    ELSE IF lo = hi THEN toks[lo]
    ELSE toks[lo] \o " " \o joined(toks, lo + 1, hi)

RECURSIVE atMostTwoChildren(_)
\* every node of the tree t has at most two children
atMostTwoChildren(t) ==
    /\ Len(t.past) <= 2
    /\ \A k \in 1..Len(t.past) : atMostTwoChildren(t.past[k])

\* C29: every Judgement of every chart cell built by the parser has a forest
\* of exactly one record, so every goal Judgement of cell (0, n) yields
\* exactly one tree, and every tree node has at most two children.
SingleRecordForests ==
    /\ \A c \in DOMAIN chart :
           \A k \in 1..Len(chart[c]) : Len(chart[c][k].derivation) = 1
    /\ pc = "done"
           => LET goals == GoalFilter(chart[<<0, Len(tokens)>>], ccg.terminal)
              IN  /\ Len(result) = Len(goals)
                  /\ \A k \in 1..Len(goals) :
                         /\ result[k].current = goals[k]
                         /\ atMostTwoChildren(result[k])

\* several goal Judgements in the top cell of a sentence of three tokens,
\* each with its one tree, the first tree with two children at its root
SingleRecordForestsWitness ==
    /\ pc = "done"
    /\ Len(tokens) = 3
    /\ Len(GoalFilter(chart[<<0, 3>>], ccg.terminal)) >= 2
    /\ Len(result) = Len(GoalFilter(chart[<<0, 3>>], ccg.terminal))
    /\ Len(result[1].past) = 2

-----------------------------------------------------------------------------
(* CCGType.unify on its own: the inputs are drawn in the initial state and
   one step applies the function *)

\* number of variable names and of atomic names the categories are built from
MaxNames == 2

VarNames == <<"X", "Y", "Z", "W">>

AtomNames == <<"NP", "S", "N", "PP">>

\* the first MaxNames names of a list
FirstNames(names) == {names[k] : k \in {m \in 1..Len(names) : m <= MaxNames}}

\* categories without a slash: variables, atoms, the atomic variables @A and
\* @B, and the annotated atom NP[f]
BaseTypes ==
    {CCGTypeVar(n) : n \in FirstNames(VarNames)}
        \cup {CCGTypeAtomic(n) : n \in FirstNames(AtomNames)}
        \cup {CCGTypeAtomicVar("A"), CCGTypeAtomicVar("B")}
        \cup {CCGTypeAnnotation(CCGTypeAtomic("NP"), "f")}

\* the categories unify is applied to: one slash at most
UnifyTypes ==
    BaseTypes \cup {CCGTypeComposite(d, l, r) : d \in {0, 1}, l \in BaseTypes, r \in BaseTypes}

\* the dicts unify is started with
UnifySigmas ==
    { EmptyDict,
      ("X" :> CCGTypeAtomic("S")),
      ("Y" :> CCGTypeVar("X")),
      ("B" :> CCGTypeAtomic("NP")) }

\* what a call made on its own returned
Returned(value) == [tag |-> "Returned", value |-> value]

InitUnify ==
    /\ ccg = CCGrammar(GrammarIntransitive)
    /\ input_string = ""
    /\ use_typer = FALSE
    /\ count = ("CCGType" :> -1)
    /\ pc = "idle"
    /\ tokens = <<>>
    /\ chart = EmptyDict
    /\ i = 0
    /\ span = 2
    /\ start = 0
    /\ result = None
    /\ error = None
    /\ lookups = 0
    /\ attempts = 0
    /\ runs = 0
    /\ prev = NoPrev
    /\ \E left \in UnifyTypes, right \in UnifyTypes, sigma \in UnifySigmas :
           uin = [tag |-> "unify", left |-> left, right |-> right, sigma |-> sigma]
    /\ uout = None

\* the call CCGType.unify(left, right, sigma)
UnifyCall ==
    /\ uout = None
    /\ uin.tag = "unify"
    /\ uout' = Returned(unify(uin.left, uin.right, uin.sigma))
    /\ UNCHANGED <<parserVars, uin>>

NextUnify == UnifyCall

SpecUnify == InitUnify /\ [][NextUnify]_vars

\* C2: whenever unify(a, b, sigma) returns true, a.replace(sigma) and
\* b.replace(sigma) display identically, for every starting sigma.
UnifySound ==
    (uout # None /\ uout.value.ok)
        => LET a == replace(uin.left, uout.value.sigma)
               b == replace(uin.right, uout.value.sigma)
           IN  /\ ~IsException(a)
               /\ ~IsException(b)
               /\ show(a) = show(b)

\* an annotated atomic category, as NP[f]
IsAnnotatedAtomic(t) == t.tag = "CCGTypeAnnotation" /\ t.type.tag = "CCGTypeAtomic"

\* C19: unifying an atomic variable with an annotated atomic category
\* succeeds in either argument order and binds the variable's name to the
\* whole annotated category, the same binding in both orders.
AtomicVarBindsAnnotated ==
    /\ (uout # None /\ uin.left.tag = "CCGTypeAtomicVar" /\ IsAnnotatedAtomic(uin.right))
           => /\ uout.value.ok
              /\ uout.value.sigma = DictSet(uin.sigma, uin.left.name, uin.right)
    /\ (uout # None /\ uin.right.tag = "CCGTypeAtomicVar" /\ IsAnnotatedAtomic(uin.left))
           => /\ uout.value.ok
              /\ uout.value.sigma = DictSet(uin.sigma, uin.right.name, uin.left)

\* what holds of C19: the annotated category first, the variable second
AnnotatedThenAtomicVarBinds ==
    (uout # None /\ uin.right.tag = "CCGTypeAtomicVar" /\ IsAnnotatedAtomic(uin.left))
        => /\ uout.value.ok
           /\ uout.value.sigma = DictSet(uin.sigma, uin.right.name, uin.left)

\* C20: unifying two Composite categories succeeds if and only if their
\* directions are equal, their left operands unify, and their right operands
\* unify once the dict left by the left operands has been applied to both.
CompositeUnifies ==
    (uout # None /\ uin.left.tag = "CCGTypeComposite" /\ uin.right.tag = "CCGTypeComposite")
        => LET lefts == unify(uin.left.left, uin.right.left, uin.sigma)
               r1 == replace(uin.left.right, lefts.sigma)
               r2 == replace(uin.right.right, lefts.sigma)
           IN  uout.value.ok
                   <=> /\ uin.left.dir = uin.right.dir
                       /\ lefts.ok
                       /\ ~IsException(r1)
                       /\ ~IsException(r2)
                       /\ unify(r1, r2, lefts.sigma).ok

CompositeUnifiesWitness ==
    /\ uout # None
    /\ uin.left = CCGTypeComposite(0, CCGTypeVar("X"), CCGTypeVar("X"))
    /\ uin.right = CCGTypeComposite(0, CCGTypeAtomic("NP"), CCGTypeAtomic("NP"))
    /\ uin.sigma = EmptyDict
    /\ uout.value.ok
    /\ uout.value.sigma = ("X" :> CCGTypeAtomic("NP"))

\* both arguments are variables, or both are atomic variables
SameKindVariables(left, right) ==
    /\ left.tag = right.tag
    /\ left.tag \in {"CCGTypeVar", "CCGTypeAtomicVar"}

\* C21: unifying two variables (or two atomic variables) of different names
\* succeeds and binds the first name to the second variable; when the names
\* are equal no binding is added and the dict is left as it was.
VariablesBindFirstToSecond ==
    (uout # None /\ SameKindVariables(uin.left, uin.right))
        => IF uin.left.name # uin.right.name
           THEN /\ uout.value.ok
                /\ uout.value.exc = None
                /\ uout.value.sigma = DictSet(uin.sigma, uin.left.name, uin.right)
           ELSE /\ uout.value.exc = None
                /\ uout.value.sigma = uin.sigma

VariablesBindFirstToSecondWitness ==
    /\ uout # None
    /\ uin.left = CCGTypeAtomicVar("A")
    /\ uin.right = CCGTypeAtomicVar("B")
    /\ uin.sigma = ("Y" :> CCGTypeVar("X"))
    /\ uout.value.ok
    /\ uout.value.sigma = ("A" :> CCGTypeAtomicVar("B")) @@ ("Y" :> CCGTypeVar("X"))

\* C22: a call of unify that returns false leaves the dict as it was before
\* the call, and a call that returns true only adds bindings: every name
\* bound before the call is still bound to the same category.
UnifyMutatesOnlyOnSuccess ==
    (uout # None /\ uout.value.exc = None)
        => /\ ~uout.value.ok => uout.value.sigma = uin.sigma
           /\ uout.value.ok
                  => \A name \in DOMAIN uin.sigma :
                         /\ name \in DOMAIN uout.value.sigma
                         /\ uout.value.sigma[name] = uin.sigma[name]

\* what an atomic variable is said to unify with
AtomicOrAtomicVar(t) ==
    t.tag \in {"CCGTypeAtomic", "CCGTypeAtomicVar"} \/ IsAnnotatedAtomic(t)

\* C24: an atomic variable unifies only with an atomic category, an
\* annotated atomic category or another atomic variable; unifying it with a
\* composite category fails.
AtomicVarUnifiesOnlyAtomic ==
    (uout # None /\ uout.value.exc = None /\ uout.value.ok)
        => /\ uin.left.tag = "CCGTypeAtomicVar" => AtomicOrAtomicVar(uin.right)
           /\ uin.right.tag = "CCGTypeAtomicVar" => AtomicOrAtomicVar(uin.left)

\* the part of C24 about composite categories
AtomicVarRejectsComposite ==
    (uout # None
        /\ \/ uin.left.tag = "CCGTypeAtomicVar" /\ uin.right.tag = "CCGTypeComposite"
           \/ uin.right.tag = "CCGTypeAtomicVar" /\ uin.left.tag = "CCGTypeComposite")
        => /\ ~uout.value.ok
           /\ uout.value.exc = None
           /\ uout.value.sigma = uin.sigma

-----------------------------------------------------------------------------
(* match of expressions on its own *)

\* the parser, not called
ParserIdle ==
    /\ ccg = CCGrammar(GrammarIntransitive)
    /\ input_string = ""
    /\ use_typer = FALSE
    /\ count = ("CCGType" :> -1)
    /\ pc = "idle"
    /\ tokens = <<>>
    /\ chart = EmptyDict
    /\ i = 0
    /\ span = 2
    /\ start = 0
    /\ result = None
    /\ error = None
    /\ lookups = 0
    /\ attempts = 0
    /\ runs = 0
    /\ prev = NoPrev

\* expressions without a concatenation
BaseExprs ==
    {CCGExprVar("a"), CCGExprVar("b"), CCGExprString("John"), CCGExprString("sleeps")}

\* the expressions match is applied to: one concatenation at most
MatchExprs == BaseExprs \cup {CCGExprConcat(l, r) : l \in BaseExprs, r \in BaseExprs}

\* the dicts match is started with
MatchSigmas ==
    { EmptyDict,
      ("a" :> CCGExprString("John")),
      ("a" :> CCGExprVar("b")),
      ("a" :> CCGExprConcat(CCGExprString("John"), CCGExprString("sleeps"))),
      ("b" :> CCGExprString("sleeps")) }

InitMatch ==
    /\ ParserIdle
    /\ \E self \in MatchExprs, data \in MatchExprs, sigma \in MatchSigmas :
           uin = [tag |-> "match", self |-> self, data |-> data, sigma |-> sigma]
    /\ uout = None

\* the call self.match(data, sigma)
MatchCall ==
    /\ uout = None
    /\ uin.tag = "match"
    /\ uout' = Returned(CCGExpr_match(uin.self, uin.data, uin.sigma))
    /\ UNCHANGED <<parserVars, uin>>

NextMatch == MatchCall

SpecMatch == InitMatch /\ [][NextMatch]_vars

\* C12: matching with a concatenation as the pattern raises ConcatError for
\* every data expression and every dict, and never returns a boolean; the
\* dict is left as it was.
ConcatPatternRaises ==
    (uout # None /\ uin.self.tag = "CCGExprConcat")
        => /\ uout.value.exc = ConcatError
           /\ uout.value.sigma = uin.sigma

ConcatPatternRaisesWitness ==
    /\ uout # None
    /\ uin.self = CCGExprConcat(CCGExprString("John"), CCGExprString("sleeps"))
    /\ uin.data = uin.self
    /\ uin.sigma = EmptyDict
    /\ uout.value.exc = ConcatError

\* data matches the expression a variable is bound to: the bound expression
\* is a literal and data is the same literal (a bound concatenation or
\* variable, matched in its turn, raises and so matches nothing)
MatchesBinding(bound, data) ==
    /\ bound.tag = "CCGExprString"
    /\ data.tag = "CCGExprString"
    /\ bound.str = data.str

-----------------------------------------------------------------------------
(* Judgement.replace on its own, applied once and then once more to what it
   returned *)

\* the Judgements replace is applied to: lexical or derived, with or without
\* semantics
ReplaceJudgements ==
    { Judgement(e, t, sem, der, 1) :
          e \in {CCGExprVar("a"), CCGExprString("John"),
                 CCGExprConcat(CCGExprVar("a"), CCGExprVar("b"))},
          t \in UnifyTypes,
          sem \in {None, [tag |-> "lambda"]},
          der \in {<<>>, <<DerivationRecord(2, <<>>), DerivationRecord(1, <<>>)>>} }

\* the dicts replace is applied with: bindings of category variables, of
\* atomic variables and of expression variables, chains and a cycle
ReplaceSigmas ==
    { EmptyDict,
      ("X" :> CCGTypeAtomic("S")),
      ("Y" :> CCGTypeVar("X")),
      ("Y" :> CCGTypeVar("X")) @@ ("X" :> CCGTypeAtomic("NP")),
      ("Y" :> CCGTypeAtomicVar("A")) @@ ("A" :> CCGTypeAtomic("S")),
      ("X" :> CCGTypeVar("Y")) @@ ("Y" :> CCGTypeVar("X")),
      ("X" :> CCGTypeComposite(0, CCGTypeVar("Y"), CCGTypeVar("X"))),
      ("A" :> CCGTypeAtomicVar("B")),
      ("a" :> CCGExprString("John")) @@ ("B" :> CCGTypeAtomic("NP")),
      ("a" :> CCGExprVar("b")) @@ ("b" :> CCGExprString("sleeps")) }

InitReplace ==
    /\ ParserIdle
    /\ \E j \in ReplaceJudgements, sigma \in ReplaceSigmas :
           uin = [tag |-> "replace", self |-> j, sigma |-> sigma]
    /\ uout = None

\* the call self.replace(sigma)
ReplaceCall ==
    /\ uout = None
    /\ uin.tag = "replace"
    /\ uout' = Returned(Judgement_replace(uin.self, uin.sigma))
    /\ UNCHANGED <<parserVars, uin>>

\* the call replace(sigma) on the Judgement the first call returned
ReplaceAgain ==
    /\ uout # None
    /\ uin.tag = "replace"
    /\ ~IsException(uout.value)
    /\ uin' = [tag |-> "replaced", self |-> uout.value, sigma |-> uin.sigma]
    /\ uout' = Returned(Judgement_replace(uout.value, uin.sigma))
    /\ UNCHANGED parserVars

NextReplace == ReplaceCall \/ ReplaceAgain

SpecReplace == InitReplace /\ [][NextReplace]_vars

RECURSIVE variables(_)
\* the names of the variables of every kind that occur in a category or an
\* expression
variables(x) ==
    CASE x.tag \in {"CCGTypeVar", "CCGTypeAtomicVar", "CCGExprVar"} -> {x.name}
      [] x.tag \in {"CCGTypeComposite", "CCGExprConcat"} ->
            variables(x.left) \cup variables(x.right)
      [] x.tag = "CCGTypeAnnotation" -> variables(x.type)
      [] OTHER -> {}

\* sigma is fully applied in the Judgement j: no variable of j is a key
FullyApplied(j, sigma) ==
    (variables(j.expr) \cup variables(j.type)) \cap DOMAIN sigma = {}

\* C13: replace keeps the semantics and the forest of the Judgement, and when
\* no variable of j.replace(sigma) is a key of sigma, replacing once more
\* returns the same expr and category.
ReplaceIdempotent ==
    (uout # None /\ uin.tag \in {"replace", "replaced"} /\ ~IsException(uout.value))
        => /\ uout.value.sem = uin.self.sem
           /\ uout.value.derivation = uin.self.derivation
           /\ (uin.tag = "replaced" /\ FullyApplied(uin.self, uin.sigma))
                  => /\ uout.value.expr = uin.self.expr
                     /\ uout.value.type = uin.self.type

\* replacing once more without the condition on sigma
ReplaceIdempotentAlways ==
    (uout # None /\ uin.tag = "replaced" /\ ~IsException(uout.value))
        => /\ uout.value.expr = uin.self.expr
           /\ uout.value.type = uin.self.type

ReplaceIdempotentWitness ==
    /\ uout # None
    /\ uin.tag = "replaced"
    /\ uin.sigma = ("Y" :> CCGTypeVar("X")) @@ ("X" :> CCGTypeAtomic("NP"))
    /\ uin.self.type = CCGTypeComposite(0, CCGTypeAtomic("NP"), CCGTypeAtomic("NP"))
    /\ Len(uin.self.derivation) = 2
    /\ uin.self.sem # None
    /\ FullyApplied(uin.self, uin.sigma)
    /\ uout.value = uin.self

-----------------------------------------------------------------------------
(* Inference.match on its own *)

\* categories without a slash that the inputs of a combinator carry
InferenceAtoms == {NP, S, CCGTypeVar("X"), CCGTypeVar("Y")}

\* the categories of the inputs: one slash at most
InferenceTypes ==
    InferenceAtoms
        \cup {CCGTypeAtomicVar("A"), CCGTypeAnnotation(NP, "f")}
        \cup {CCGTypeComposite(d, l, r) : d \in {0, 1}, l \in InferenceAtoms, r \in InferenceAtoms}

\* the lists of Judgements a combinator is matched against: one Judgement
\* for the type-raising rules, two for the others
InferenceData(self) ==
    IF Len(self.hyps) = 1
    THEN {<<Judgement(CCGExprString("a"), t, None, <<>>, 1)>> : t \in InferenceTypes}
    ELSE {<<Judgement(CCGExprString("a"), t, None, <<>>, 1),
            Judgement(CCGExprString("b"), u, None, <<>>, 1)>> :
              t \in InferenceTypes, u \in InferenceTypes}

InitInference ==
    /\ ParserIdle
    /\ \E self \in {ApplicationLeft, ApplicationRight, CompositionLeft, CompositionRight,
                     TypeRaisingRight, TypeRaisingLeft} :
           \E data \in InferenceData(self) :
               uin = [tag |-> "Inference.match", self |-> self, data |-> data]
    /\ uout = None

\* what InferenceCall does with r, the outcome of self.match(data)
InferenceReturn(r) ==
    /\ uout' = Returned(r.value)
    /\ count' = r.count

\* the call self.match(data)
InferenceCall ==
    /\ uout = None
    /\ uin.tag = "Inference.match"
    /\ InferenceReturn(Inference_match(uin.self, uin.data, count))
    /\ UNCHANGED <<ccg, input_string, use_typer, pc, tokens, chart, i, span, start,
                   result, error, lookups, attempts, runs, prev, uin>>

NextInference == InferenceCall

SpecInference == InitInference /\ [][NextInference]_vars

\* every hypothesis of the rule matched its input, in order, each under the
\* dict left by the ones before
EveryHypothesisMatches(self, data) == matchHyps(self.hyps, data, 1, EmptyDict).ok

\* C14: a combinator's match raises no error; it returns None when some
\* hypothesis fails to unify or match its input, and a Judgement when every
\* hypothesis matches.
MatchReturnsNoneOrJudgement ==
    (uout # None /\ uin.tag = "Inference.match")
        => /\ ~IsException(uout.value)
           /\ IF EveryHypothesisMatches(uin.self, uin.data)
              THEN uout.value.tag = "Judgement"
              ELSE uout.value = None

\* what remains of C14 on the calls that raise nothing
MatchReturnsNoneOrJudgementUnlessRaised ==
    (uout # None /\ uin.tag = "Inference.match" /\ ~IsException(uout.value))
        => IF EveryHypothesisMatches(uin.self, uin.data)
           THEN uout.value.tag = "Judgement"
           ELSE uout.value = None

\* the consequence C24 draws: type-raising gives nothing on a Judgement whose
\* category is composite
RaisingSkipsComposite ==
    (uout # None /\ uin.tag = "Inference.match" /\ uin.self.helper = "freshT"
        /\ uin.data[1].type.tag = "CCGTypeComposite")
        => uout.value = None

-----------------------------------------------------------------------------
(* The body of the loop over left_right_pairs of compute_chart on its own *)

\* the categories of the two entries: atomic, annotated, or with one slash
PairTypes ==
    {NP, S, CCGTypeAnnotation(NP, "f")}
        \cup {CCGTypeComposite(d, l, r) : d \in {0, 1}, l \in {NP, S}, r \in {NP, S}}

InitPair ==
    /\ ParserIdle
    /\ \E t \in PairTypes, u \in PairTypes, typer \in BOOLEAN :
           uin = [tag |-> "compute_pair",
                  left |-> Judgement(CCGExprString("a"), t, None, <<>>, 1),
                  right |-> Judgement(CCGExprString("b"), u, None, <<>>, 1),
                  use_typer |-> typer,
                  count |-> count]
    /\ uout = None

\* what PairCall does with acc, the outcome of the loop body
PairReturn(acc) ==
    /\ uout' = Returned(acc)
    /\ count' = acc.count

\* one iteration of "for left, right in left_right_pairs", started with an
\* empty current_chart
PairCall ==
    /\ uout = None
    /\ uin.tag = "compute_pair"
    /\ PairReturn(compute_pair(combinators, uin.left, uin.right, uin.use_typer,
                               Acc(<<>>, count, 0, None)))
    /\ UNCHANGED <<ccg, input_string, use_typer, pc, tokens, chart, i, span, start,
                   result, error, lookups, attempts, runs, prev, uin>>

NextPair == PairCall

SpecPair == InitPair /\ [][NextPair]_vars

\* the (expr, category) pairs of a list of Judgements, in order
Pairs(judgements) ==
    [k \in 1..Len(judgements) |-> [expr |-> judgements[k].expr, type |-> judgements[k].type]]

\* forward raising T>: X lifted to T/(T\X), T being the variable named t
RaiseForward(j, t) ==
    [j EXCEPT !.type = CCGTypeComposite(1, CCGTypeVar(t),
                                        CCGTypeComposite(0, CCGTypeVar(t), j.type))]

\* backward raising T<: X lifted to T\(T/X)
RaiseBackward(j, t) ==
    [j EXCEPT !.type = CCGTypeComposite(0, CCGTypeVar(t),
                                        CCGTypeComposite(1, CCGTypeVar(t), j.type))]

\* the pairs every binary combinator gives on (left, right), in order
Combined(left, right) ==
    Pairs(add_combinations(combinators, left, right, Acc(<<>>, uin.count, 0, None)).chart)

\* the fresh names of the first and of the second raising of the call
FirstFresh == fresh(uin.count, "CCGTypeComposite", "T")

SecondFresh == fresh(FirstFresh.count, "CCGTypeComposite", "T")

\* a category that is raised, and one that is not
IsAtomic(j) == j.type.tag = "CCGTypeAtomic"

IsComposite(j) == j.type.tag = "CCGTypeComposite"

\* the call was made in type-raising mode on two entries whose categories
\* are atomic or composite, and raised nothing
RaisingCase ==
    /\ uout # None
    /\ uin.tag = "compute_pair"
    /\ uin.use_typer
    /\ uout.value.exc = None
    /\ IsAtomic(uin.left) \/ IsComposite(uin.left)
    /\ IsAtomic(uin.right) \/ IsComposite(uin.right)

\* C17 (as stated): in type-raising mode every binary combinator is also
\* attempted on (left, raise-forward(right)) and on (raise-backward(left),
\* right), T> lifting X to T/(T\X) and T< lifting X to T\(T/X).
RaisedPairsAttempted ==
    RaisingCase
        => Pairs(uout.value.chart)
               = Combined(uin.left, uin.right)
                 \o (IF IsAtomic(uin.right)
                     THEN Combined(uin.left, RaiseForward(uin.right, FirstFresh.name))
                     ELSE <<>>)
                 \o (IF IsAtomic(uin.left)
                     THEN Combined(RaiseBackward(uin.left, SecondFresh.name), uin.right)
                     ELSE <<>>)

\* C17 (amended): in type-raising mode every binary combinator is also
\* attempted on (left, raise-backward(right)) when right is atomic and on
\* (raise-forward(left), right) when left is atomic, T> lifting X to T/(T\X)
\* and T< lifting X to T\(T/X); a composite category is not raised.
RaisedPairsAttemptedSidesSwapped ==
    RaisingCase
        => /\ Pairs(uout.value.chart)
                  = Combined(uin.left, uin.right)
                    \o (IF IsAtomic(uin.right)
                        THEN Combined(uin.left, RaiseBackward(uin.right, FirstFresh.name))
                        ELSE <<>>)
                    \o (IF IsAtomic(uin.left)
                        THEN Combined(RaiseForward(uin.left, SecondFresh.name), uin.right)
                        ELSE <<>>)
           /\ uout.value.attempts
                  = 2 + Len(combinators) * (1 + (IF IsAtomic(uin.right) THEN 1 ELSE 0)
                                              + (IF IsAtomic(uin.left) THEN 1 ELSE 0))

RaisedPairsAttemptedWitness ==
    /\ RaisingCase
    /\ uin.left.type = NP
    /\ uin.right.type = CCGTypeComposite(0, S, NP)
    /\ Len(uout.value.chart) = 2
    /\ uout.value.chart[2].derivation[1].derivation[1] = ">"
    /\ uout.value.chart[2].derivation[1].derivation[3][1].type
           = RaiseForward(uin.left, "T_1").type

-----------------------------------------------------------------------------
(* add_combinations on its own, on two Judgements of ground categories *)

\* ground categories with one slash
CombineFlat == {CCGTypeComposite(d, l, r) : d \in {0, 1}, l \in {NP, S}, r \in {NP, S}}

\* the ground categories of the two Judgements: two slashes at most
CombineTypes ==
    {NP, S, CCGTypeAnnotation(NP, "f")}
        \cup CombineFlat
        \cup {CCGTypeComposite(d, l, r) : d \in {0, 1}, l \in CombineFlat, r \in {NP, S}}
        \cup {CCGTypeComposite(d, l, r) : d \in {0, 1}, l \in {NP, S}, r \in CombineFlat}

InitCombine ==
    /\ ParserIdle
    /\ \E t \in CombineTypes, u \in CombineTypes :
           uin = [tag |-> "add_combinations",
                  left |-> Judgement(CCGExprString("a"), t, None, <<>>, 1),
                  right |-> Judgement(CCGExprString("b"), u, None, <<>>, 1)]
    /\ uout = None

\* what CombineCall does with acc, the outcome of add_combinations
CombineReturn(acc) ==
    /\ uout' = Returned(acc)
    /\ count' = acc.count

\* the call add_combinations(combinators, left, right, set())
CombineCall ==
    /\ uout = None
    /\ uin.tag = "add_combinations"
    /\ CombineReturn(add_combinations(combinators, uin.left, uin.right,
                                      Acc(<<>>, count, 0, None)))
    /\ UNCHANGED <<ccg, input_string, use_typer, pc, tokens, chart, i, span, start,
                   result, error, lookups, attempts, runs, prev, uin>>

NextCombine == CombineCall

SpecCombine == InitCombine /\ [][NextCombine]_vars

\* the name of the rule that made a result
ruleOf(j) == j.derivation[1].derivation[1]

\* the category t is a functor in direction dir whose argument unifies with u
FunctorOver(t, dir, u) ==
    /\ t.tag = "CCGTypeComposite"
    /\ t.dir = dir
    /\ unify(t.right, u, EmptyDict).ok

\* C26: the four binary combinators, applied to a left Judgement of ground
\* category X/Y and a right one of category Y, add exactly one result, made
\* by forward application, of category X and of expr the left expr followed
\* by the right expr; an application rule whose functor's argument category
\* does not unify with the other input adds nothing.
ForwardApplicationAddsOne ==
    (uout # None /\ uin.tag = "add_combinations")
        => /\ uout.value.exc = None
           /\ (uin.left.type.tag = "CCGTypeComposite" /\ uin.left.type.dir = 1
                  /\ uin.left.type.right = uin.right.type)
                  => /\ Len(uout.value.chart) = 1
                     /\ ruleOf(uout.value.chart[1]) = ">"
                     /\ uout.value.chart[1].type = uin.left.type.left
                     /\ uout.value.chart[1].expr = CCGExprConcat(uin.left.expr, uin.right.expr)
           /\ ~FunctorOver(uin.left.type, 1, uin.right.type)
                  => \A k \in 1..Len(uout.value.chart) : ruleOf(uout.value.chart[k]) # ">"
           /\ ~FunctorOver(uin.right.type, 0, uin.left.type)
                  => \A k \in 1..Len(uout.value.chart) : ruleOf(uout.value.chart[k]) # "<"

\* eats: (S\NP)/NP and John: NP give eats John: S\NP
ForwardApplicationAddsOneWitness ==
    /\ uout # None
    /\ uin.tag = "add_combinations"
    /\ uin.left.type = Fwd(Bwd(S, NP), NP)
    /\ uin.right.type = NP
    /\ Len(uout.value.chart) = 1
    /\ Judgement_show(uout.value.chart[1]) = "\"a b\":(S \\ NP)"

-----------------------------------------------------------------------------
(* Inference.match on objects: Judgements and their forest lists are objects
   of a heap, known by their position, so that two Judgements can hold one
   list and an assignment to an attribute changes one object *)

Heap(objs, lists) == [objs |-> objs, lists |-> lists]

\* a reference to the Judgement at position n
Ref(n) == [tag |-> "Ref", ref |-> n]

\* Judgement.__init__: the new object takes the list it is given when that
\* list is truthy, and a new list of one record otherwise; derivation is the
\* position of a list, 0 for None.  Returns the heap with the object last.
HeapJudgement(h, expr, type_judg, sem, derivation, weight) ==
    IF derivation # 0 /\ h.lists[derivation] # <<>>
    THEN Heap(Append(h.objs, [expr |-> expr, type |-> type_judg, sem |-> sem,
                              derivation |-> derivation]),
              h.lists)
    ELSE Heap(Append(h.objs, [expr |-> expr, type |-> type_judg, sem |-> sem,
                              derivation |-> Len(h.lists) + 1]),
              Append(h.lists, <<DerivationRecord(weight, <<>>)>>))

\* what an operation that may raise returns: the heap after it and the
\* exception, None when it returned
Done(h, exc) == [heap |-> h, exc |-> exc]

\* Judgement.replace, exp and typ being the replaced expr and type: the new
\* object holds the list of self ("der = self.derivation")
HeapJudgement_replaced(h, self, exp, typ) ==
    IF IsException(exp) THEN Done(h, exp)
    ELSE IF IsException(typ) THEN Done(h, typ)
    ELSE Done(HeapJudgement(h, exp, typ, h.objs[self].sem, h.objs[self].derivation, 1), None)

\* Judgement.replace(sigma) of the object at self; the new object is the last
HeapJudgement_replace(h, self, sigma) ==
    HeapJudgement_replaced(h, self, replace(h.objs[self].expr, sigma),
                           replace(h.objs[self].type, sigma))

\* the records deriving builds: one per element of the product of the
\* inputs' lists
HeapRecords(h, combinator, sigma, judmts) ==
    LET prod == product([k \in 1..Len(judmts) |-> h.lists[h.objs[judmts[k]].derivation]])
    IN  [k \in 1..Len(prod) |->
            DerivationRecord(maxWeight(prod[k]), <<combinator, sigma, judmts>>)]

\* variant of Judgement.deriving that empties and refills the list self holds
HeapJudgement_deriving_in_place(h, self, combinator, sigma, judmts, sem) ==
    Heap([h.objs EXCEPT ![self] = [@ EXCEPT !.sem = sem]],
         [h.lists EXCEPT ![h.objs[self].derivation] = HeapRecords(h, combinator, sigma, judmts)])

\* Judgement.deriving: "self.derivation = []" gives self a new list, the
\* records are appended to it, and self.sem is assigned
HeapJudgement_deriving(h, self, combinator, sigma, judmts, sem) ==
    Heap([h.objs EXCEPT ![self] = [@ EXCEPT !.derivation = Len(h.lists) + 1, !.sem = sem]],
         Append(h.lists, HeapRecords(h, combinator, sigma, judmts)))

\* a combinator whose patterns are objects: hyps and concl are positions
HeapRule(rule, hyps, concl) ==
    [name |-> rule.name, hyps |-> hyps, concl |-> concl, sem |-> rule.sem,
     helper |-> rule.helper]

\* what Inference.match returns: the heap and the counter after the call, and
\* the new Judgement (a Ref), None, or the exception raised
Matching(h, value, cnt) == [heap |-> h, value |-> value, count |-> cnt]

RECURSIVE HeapMatchHyps(_, _, _, _, _)

\* "if not pat.match(dat, sigma): return None", m being what match returned
HeapMatchHyps_matched(h, hyps, data, k, m) ==
    IF m.exc # None \/ ~m.ok THEN [heap |-> h, ok |-> FALSE, sigma |-> m.sigma, exc |-> m.exc]
    ELSE HeapMatchHyps(h, hyps, data, k + 1, m.sigma)

\* "dat = dat.replace(sigma)" done, the new pat and dat being the last two
\* objects of the heap
HeapMatchHyps_dat(hyps, data, k, sigma, d) ==
    IF d.exc # None THEN [heap |-> d.heap, ok |-> FALSE, sigma |-> sigma, exc |-> d.exc]
    ELSE HeapMatchHyps_matched(d.heap, hyps, data, k,
             Judgement_match(d.heap.objs[Len(d.heap.objs) - 1],
                             d.heap.objs[Len(d.heap.objs)], sigma))

\* "pat = pat.replace(sigma)" done
HeapMatchHyps_pat(hyps, data, k, sigma, p) ==
    IF p.exc # None THEN [heap |-> p.heap, ok |-> FALSE, sigma |-> sigma, exc |-> p.exc]
    ELSE HeapMatchHyps_dat(hyps, data, k, sigma, HeapJudgement_replace(p.heap, data[k], sigma))

\* the loop of Inference.match over zip(hyps, data) from position k
HeapMatchHyps(h, hyps, data, k, sigma) ==
    IF k > Len(hyps) \/ k > Len(data) THEN [heap |-> h, ok |-> TRUE, sigma |-> sigma, exc |-> None]
    ELSE HeapMatchHyps_pat(hyps, data, k, sigma, HeapJudgement_replace(h, hyps[k], sigma))

\* the return statement: concl.replace(sigma).deriving(self, sigma, data, sem),
\* c being what concl.replace(sigma) did
HeapInference_match_derive(self, data, m, cnt, c) ==
    IF c.exc # None THEN Matching(c.heap, c.exc, cnt)
    ELSE Matching(HeapJudgement_deriving(c.heap, Len(c.heap.objs), self.name, m.sigma, data,
                      Inference_sem(self, [k \in 1..Len(data) |-> c.heap.objs[data[k]]])),
                  Ref(Len(c.heap.objs)), cnt)

\* Inference.match after its loop, m being what the loop ended with
HeapInference_match_looped(self, data, concl, cnt, m) ==
    IF m.exc # None THEN Matching(m.heap, m.exc, cnt)
    ELSE IF ~m.ok THEN Matching(m.heap, None, cnt)
    ELSE HeapInference_match_derive(self, data, m, cnt,
                                    HeapJudgement_replace(m.heap, concl, m.sigma))

\* Inference.match after the helper of a type-raising rule, f being the fresh
\* name and r what "x[1].replace({"T": ...})" did: the conclusion matched
\* against is the new object
HeapInference_match_raised(self, data, f, r) ==
    IF r.exc # None THEN Matching(r.heap, r.exc, f.count)
    ELSE HeapInference_match_looped(self, data, Len(r.heap.objs), f.count,
             HeapMatchHyps(r.heap, self.hyps, data, 1, EmptyDict))

HeapInference_match_fresh(h, self, data, f) ==
    HeapInference_match_raised(self, data, f,
        HeapJudgement_replace(h, self.concl, ("T" :> CCGTypeVar(f.name))))

\* Inference.match(data) on objects
HeapInference_match(h, self, data, cnt) ==
    IF self.helper = "freshT"
    THEN HeapInference_match_fresh(h, self, data, fresh(cnt, "CCGTypeComposite", "T"))
    ELSE HeapInference_match_looped(self, data, self.concl, cnt,
             HeapMatchHyps(h, self.hyps, data, 1, EmptyDict))

\* the six combinators of the module
AllCombinators == combinators \o <<TypeRaisingRight, TypeRaisingLeft>>

RECURSIVE HeapPatterns(_, _, _)
\* the heap after the Judgement(...) calls that build the patterns listed
HeapPatterns(h, patterns, k) ==
    IF k > Len(patterns) THEN h
    ELSE HeapPatterns(HeapJudgement(h, patterns[k].expr, patterns[k].type, None, 0, 1),
                      patterns, k + 1)

RECURSIVE HeapRules(_, _)
\* the heap and the combinators once the module is loaded: for every
\* combinator its hypotheses and then its conclusion
HeapRules(acc, k) ==
    IF k > Len(AllCombinators) THEN acc
    ELSE LET rule == AllCombinators[k]
             n == Len(acc.heap.objs)
         IN  HeapRules([heap |-> HeapPatterns(acc.heap, Append(rule.hyps, rule.concl), 1),
                        rules |-> Append(acc.rules,
                                         HeapRule(rule,
                                                  [m \in 1..Len(rule.hyps) |-> n + m],
                                                  n + Len(rule.hyps) + 1))],
                       k + 1)

\* the lexicon entries of a grammar, token after token
LexiconEntries(g) ==
    LET toks == DOMAIN g.rules
        RECURSIVE flat(_)
        flat(rest) == IF rest = {} THEN <<>>
                      ELSE LET t == CHOOSE x \in rest : TRUE
                           IN  g.rules[t] \o flat(rest \ {t})
    IN  flat(toks)

RECURSIVE HeapLexicon(_, _, _)
\* the heap after the Judgement(...) calls of the grammar parser
HeapLexicon(h, entries, k) ==
    IF k > Len(entries) THEN h
    ELSE HeapLexicon(HeapJudgement(h, entries[k].expr, entries[k].type, entries[k].sem, 0,
                                   entries[k].derivation[1].weight),
                     entries, k + 1)

\* the grammars whose lexicon the combinators are applied to
HeapGrammars == {GrammarIntransitive, GrammarBackward, GrammarTransitive}

\* number of Inference.match calls made on one heap
MaxCalls == 2

InitHeap ==
    /\ ParserIdle
    /\ \E g \in HeapGrammars :
           LET loaded == HeapRules([heap |-> Heap(<<>>, <<>>), rules |-> <<>>], 1)
               entries == LexiconEntries(CCGrammar(g))
               h == HeapLexicon(loaded.heap, entries, 1)
           IN  /\ uin = [tag |-> "heap", rules |-> loaded.rules, heap |-> h,
                         lexicon |-> [k \in 1..Len(entries) |-> Len(loaded.heap.objs) + k]]
               /\ uout = [tag |-> "Heap", heap |-> h, calls |-> 0, last |-> None,
                          data |-> [k \in 1..Len(entries) |-> Len(loaded.heap.objs) + k]]

\* what HeapCall does with r, the outcome of the match: a new Judgement is
\* kept as one more input for the calls to come
HeapReturn(r) ==
    /\ uout' = [uout EXCEPT !.heap = r.heap,
                            !.calls = @ + 1,
                            !.last = r.value,
                            !.data = IF r.value.tag = "Ref" THEN Append(@, r.value.ref) ELSE @]
    /\ count' = r.count

\* one call combinator.match(data) on Judgements of the lexicon or made by
\* earlier calls, as add_combinations and compute_chart make them
HeapCall ==
    /\ uin.tag = "heap"
    /\ uout.calls < MaxCalls
    /\ \E c \in 1..Len(uin.rules) :
           \E data \in [1..Len(uin.rules[c].hyps) -> 1..Len(uout.data)] :
               /\ \A a, b \in DOMAIN data : a # b => data[a] # data[b]
               /\ HeapReturn(HeapInference_match(uout.heap, uin.rules[c],
                                 [k \in DOMAIN data |-> uout.data[data[k]]], count))
    /\ UNCHANGED <<ccg, input_string, use_typer, pc, tokens, chart, i, span, start,
                   result, error, lookups, attempts, runs, prev, uin>>

NextHeap == HeapCall

SpecHeap == InitHeap /\ [][NextHeap]_vars

\* the objects and lists of heap h are in heap g as they are in h
HeapKept(h, g) ==
    /\ Len(g.objs) >= Len(h.objs)
    /\ Len(g.lists) >= Len(h.lists)
    /\ \A a \in 1..Len(h.objs) : g.objs[a] = h.objs[a]
    /\ \A l \in 1..Len(h.lists) : g.lists[l] = h.lists[l]

\* every lexicon Judgement and every pattern of every combinator is as it was
\* when the calls began
InputsKept == HeapKept(uin.heap, uout.heap)

\* a call changes no object and no list that existed before it
StepKeepsObjects == HeapKept(uout.heap, uout'.heap)

\* C30: the calls of a parse do not modify their inputs: every lexicon
\* Judgement keeps its expr, category, semantics and forest, every
\* combinator's hypothesis and conclusion patterns are unchanged, and
\* deriving changes only the Judgement newly built from the conclusion.
InputsNotModified == []InputsKept /\ [][StepKeepsObjects]_vars

\* two calls, the second on the Judgement the first one made
InputsNotModifiedWitness ==
    /\ uin.tag = "heap"
    /\ uout.calls = 2
    /\ uout.last.tag = "Ref"
    /\ Len(uout.data) = Len(uin.lexicon) + 2
    /\ \E k \in 1..Len(uout.heap.lists[uout.heap.objs[uout.last.ref].derivation]) :
           \E m \in 1..Len(uout.heap.lists[uout.heap.objs[uout.last.ref].derivation][k].derivation[3]) :
               uout.heap.lists[uout.heap.objs[uout.last.ref].derivation][k].derivation[3][m]
                   = uout.data[Len(uin.lexicon) + 1]

-----------------------------------------------------------------------------
(* reconstruct on its own, on Judgements built by Judgement.__init__ and
   Judgement.deriving *)

\* largest number of records in the forest of a lexical Judgement
MaxForest == 2

\* a forest of n lexical records, of weights 1..n
LeafForest(n) == [k \in 1..n |-> DerivationRecord(k, <<>>)]

LeafJudgements ==
    { Judgement(CCGExprString(w), CCGTypeAtomic("NP"), None, LeafForest(n), 1) :
          w \in {"a", "b"}, n \in 1..MaxForest }

\* the Judgement a rule named rule derives from the inputs judmts
Derived(rule, judmts) ==
    Judgement_deriving(Judgement(CCGExprString("c"), CCGTypeAtomic("S"), None, <<>>, 1),
                       rule, EmptyDict, judmts, None)

\* derived from one or two lexical Judgements
DerivedOnce ==
    {Derived("T>", <<l>>) : l \in LeafJudgements}
        \cup {Derived("<", <<l, r>>) : l \in LeafJudgements, r \in LeafJudgements}

\* derived from two Judgements, one of them derived itself
DerivedTwice ==
    {Derived(">", <<l, r>>) : l \in DerivedOnce, r \in LeafJudgements \cup DerivedOnce}

InitReconstruct ==
    /\ ccg = CCGrammar(GrammarIntransitive)
    /\ input_string = ""
    /\ use_typer = FALSE
    /\ count = ("CCGType" :> -1)
    /\ pc = "idle"
    /\ tokens = <<>>
    /\ chart = EmptyDict
    /\ i = 0
    /\ span = 2
    /\ start = 0
    /\ result = None
    /\ error = None
    /\ lookups = 0
    /\ attempts = 0
    /\ runs = 0
    /\ prev = NoPrev
    /\ \E j \in LeafJudgements \cup DerivedOnce \cup DerivedTwice :
           uin = [tag |-> "reconstruct", parses |-> <<j>>]
    /\ uout = None

\* the call reconstruct(parses)
ReconstructCall ==
    /\ uout = None
    /\ uin.tag = "reconstruct"
    /\ uout' = Returned(reconstruct(uin.parses))
    /\ UNCHANGED <<parserVars, uin>>

NextReconstruct == ReconstructCall

SpecReconstruct == InitReconstruct /\ [][NextReconstruct]_vars

-----------------------------------------------------------------------------
(* Judgement.deriving on its own *)

\* the Judgements deriving is given: lexical ones with one forest record or
\* more, one whose heaviest record is not the last, and derived ones
DerivingChildren ==
    LeafJudgements
        \cup {Judgement(CCGExprString("d"), CCGTypeAtomic("NP"), None,
                        <<DerivationRecord(MaxForest + 1, <<>>), DerivationRecord(1, <<>>)>>, 1)}
        \cup DerivedOnce

InitDeriving ==
    /\ ParserIdle
    /\ \E l \in DerivingChildren, r \in DerivingChildren, n \in {1, 2},
          sem \in {None, [tag |-> "lambda"]} :
           uin = [tag |-> "deriving",
                  self |-> Judgement(CCGExprString("c"), S, [tag |-> "old"], <<>>, 1),
                  combinator |-> IF n = 1 THEN "T>" ELSE "<",
                  sigma |-> ("X" :> S),
                  judmts |-> IF n = 1 THEN <<l>> ELSE <<l, r>>,
                  sem |-> sem]
    /\ uout = None

\* the call self.deriving(combinator, sigma, judmts, sem)
DerivingCall ==
    /\ uout = None
    /\ uin.tag = "deriving"
    /\ uout' = Returned(Judgement_deriving(uin.self, uin.combinator, uin.sigma,
                                           uin.judmts, uin.sem))
    /\ UNCHANGED <<parserVars, uin>>

NextDeriving == DerivingCall

SpecDeriving == InitDeriving /\ [][NextDeriving]_vars

\* the ways of taking one forest record of each Judgement of a list
Choices(judmts) ==
    {f \in [1..Len(judmts) -> 1..MaxForest * MaxForest] :
        \A c \in 1..Len(judmts) : f[c] <= Len(judmts[c].derivation)}

\* the largest weight among the records taken by f
ChoiceWeight(judmts, f) ==
    CHOOSE w \in {judmts[c].derivation[f[c]].weight : c \in 1..Len(judmts)} :
        \A c \in 1..Len(judmts) : judmts[c].derivation[f[c]].weight <= w

RECURSIVE forestSizes(_, _)
\* the product of the forest sizes of the Judgements from position k
forestSizes(judmts, k) ==
    IF k > Len(judmts) THEN 1 ELSE Len(judmts[k].derivation) * forestSizes(judmts, k + 1)

\* C18: deriving sets the forest to one record per element of the cross
\* product of the children's forests (as many records as the product of their
\* sizes), each of weight the maximum of its tuple and pointing to the rule,
\* sigma and children; it attaches the semantics and returns the Judgement
\* itself.
DerivingCrossProduct ==
    (uout # None /\ uin.tag = "deriving")
        => LET forest == uout.value.derivation
           IN  /\ Len(forest) = forestSizes(uin.judmts, 1)
               /\ Len(forest) = Cardinality(Choices(uin.judmts))
               /\ \A k \in 1..Len(forest) :
                      forest[k].derivation = <<uin.combinator, uin.sigma, uin.judmts>>
               /\ \A w \in 1..(MaxForest + 1) :
                      Cardinality({k \in 1..Len(forest) : forest[k].weight = w})
                          = Cardinality({f \in Choices(uin.judmts) :
                                            ChoiceWeight(uin.judmts, f) = w})
               /\ \A k \in 1..Len(forest) : forest[k].weight \in 1..(MaxForest + 1)
               /\ uout.value.sem = uin.sem
               /\ uout.value.expr = uin.self.expr
               /\ uout.value.type = uin.self.type

DerivingCrossProductWitness ==
    /\ uout # None
    /\ uin.tag = "deriving"
    /\ Len(uin.judmts) = 2
    /\ Len(uin.judmts[1].derivation) = 2
    /\ uin.judmts[1].derivation[1].weight = MaxForest + 1
    /\ Len(uin.judmts[2].derivation) = 2
    /\ uin.judmts[2].derivation[2].weight = 2
    /\ uin.sem # None
    /\ Len(uout.value.derivation) = 4
    /\ uout.value.derivation[4].weight = 2

RECURSIVE treeCount(_)
\* the number of explicit trees of a Judgement: its number of records when
\* lexical, else the number of combinations of one tree per child
treeCount(j) ==
    LET children == j.derivation[1].derivation[3]
        RECURSIVE prod(_)
        prod(k) == IF k > Len(children) THEN 1 ELSE treeCount(children[k]) * prod(k + 1)
    IN  IF j.derivation[1].derivation = <<>> THEN Len(j.derivation) ELSE prod(1)

RECURSIVE oneTreePerChild(_)
\* the tree t is one combination of child-tree choices: a leaf, or one tree
\* of each child of its record, in order, each such a combination itself
oneTreePerChild(t) ==
    \/ t.combinator = "None" /\ t.past = <<>>
    \/ /\ t.combinator # "None"
       /\ LET children == t.current.derivation[1].derivation[3]
          IN  /\ Len(t.past) = Len(children)
              /\ \A k \in 1..Len(children) :
                     t.past[k].current = children[k] /\ oneTreePerChild(t.past[k])

\* C3: reconstruct returns as many trees as there are combinations of forest
\* alternatives, each tree one combination of child-tree choices; a
\* Judgement with a single lexical record gives exactly one tree.
ReconstructionComplete ==
    uout # None
        => LET j == uin.parses[1]
               trees == uout.value
           IN  /\ Len(trees) = treeCount(j)
               /\ \A k \in 1..Len(trees) : trees[k].current = j /\ oneTreePerChild(trees[k])
               /\ (Len(j.derivation) = 1 /\ j.derivation[1].derivation = <<>>)
                      => Len(trees) = 1

====
